---- MODULE Spec2Model ----
(***************************************************************************)
(* The MPRIS session control service of souvlaki: the handle the embedder  *)
(* holds (attach, detach, typed setters), the command channel, and the     *)
(* worker thread that drains it.                                           *)
(*                                                                         *)
(* The repository carries three builds of this service, and the model      *)
(* carries all three, chosen once in Init by `backend`:                    *)
(*   "zbus"    platform/mpris/mod.rs (handle) + mpris/zbus/controls.rs     *)
(*   "dbus"    platform/mpris/dbus/controls.rs (same as mpris/dbus/mod.rs) *)
(*   "legacy"  platform/mpris/dbus.rs (same handle as platform/linux)      *)
(***************************************************************************)
EXTENDS Integers, Sequences, FiniteSets, TLC

VARIABLES
    backend,     \* which build of the service is running
    bus,         \* the session bus: "up" or "down"
    thread,      \* Mpris.thread: NoThread (None) or the worker it holds
    nspawned,    \* number of thread::spawn calls so far
    callerPc,    \* the embedder's thread: "idle", "detach_join", "attach_join"
    joinTarget,  \* the worker the embedder is blocked joining
    lastOp,      \* the last handle operation that returned
    prevOp,      \* the handle operation that returned before it
    lastRes,     \* what it returned ("panic": it unwound instead)
    wStatus,     \* per worker: position of the thread in run_service
    wResult,     \* per worker: what the thread returned ("Panicked": it unwound)
    wConn,       \* per worker: its bus connection, "none" | "alive" | "dead"
    chan,        \* per worker: the mpsc channel's queued InternalEvents
    sstate,      \* per worker: its ServiceState
    sent,        \* per worker: every InternalEvent ever enqueued, in order
    applied,     \* per worker: the commands whose state mutation was made
    signals,     \* per worker: the PropertiesChanged signals put on the bus
    joins,       \* per worker: how many times JoinHandle::join returned for it
    nsends,      \* number of commands the setters have enqueued
    session,     \* a serving worker's ServiceState, as its bus interfaces read it
    request,     \* the last request the service handled (a setter or a remote call)
    delivered,   \* the MediaControlEvents that request handed to the event handler
    emitted,     \* the signals that request put on the bus
    event_handler,            \* the Mutex around the registered handler: holder, poisoned
    dispatching,              \* per bus-processing thread: where it is in a method call
    GLOBAL_METADATA_COUNTER,  \* apple: the AtomicUsize set_cover increments
    nowPlayingInfo,           \* apple: MPNowPlayingInfoCenter.nowPlayingInfo
    loads,                    \* apple: the image loads set_cover has queued
    controls,                 \* windows: the SystemMediaTransportControls
    handlers                  \* windows: Windows.handlers, the registration tokens

vars == <<backend, bus, thread, nspawned, callerPc, joinTarget, lastOp, prevOp, lastRes,
          wStatus, wResult, wConn, chan, sstate, sent, applied, signals, joins,
          nsends, session, request, delivered, emitted,
          event_handler, dispatching, GLOBAL_METADATA_COUNTER, nowPlayingInfo, loads,
          controls, handlers>>

sessionVars == <<session, request, delivered, emitted>>

\* The state of the other platforms' backends and of the handler's mutex.
platformVars == <<event_handler, dispatching, GLOBAL_METADATA_COUNTER, nowPlayingInfo, loads,
                  controls, handlers>>

callerVars == <<thread, nspawned, callerPc, joinTarget, lastOp, prevOp, lastRes, joins, nsends>>
workerVars == <<wStatus, wResult, wConn, chan, sstate, sent, applied, signals>>

(* Bounds of the model. *)
MaxWorkers == 2
MaxBusThreads == 2
MaxSends == 2

Backends == {"zbus", "dbus", "legacy"}
Workers == 1..MaxWorkers
NoThread == 0

(***************************************************************************)
(* InternalEvent and ServiceState.                                         *)
(***************************************************************************)
Kill == [op |-> "Kill", arg |-> "-"]

CommonCmds ==
    { [op |-> "SetPlayback", arg |-> "Playing"],
      [op |-> "SetVolume", arg |-> "0.5"],
      [op |-> "SetMetadata", arg |-> "A"] }

PermissionCmds ==
    { [op |-> "SetPermissions", arg |-> "none"],
      [op |-> "SetPermissions", arg |-> "all"] }

SetterCmds(b) == IF b = "zbus" THEN CommonCmds \cup PermissionCmds ELSE CommonCmds

DefaultState ==
    [ playback_status |-> "Stopped",
      volume          |-> "1.0",
      metadata        |-> "empty",
      permissions     |-> "none" ]

\* The assignment each match arm of run_service makes to the state.
ApplyCmd(s, c) ==
    CASE c.op = "SetPlayback"    -> [s EXCEPT !.playback_status = c.arg]
      [] c.op = "SetVolume"      -> [s EXCEPT !.volume = c.arg]
      [] c.op = "SetMetadata"    -> [s EXCEPT !.metadata = c.arg]
      [] c.op = "SetPermissions" -> [s EXCEPT !.permissions = c.arg]
      [] OTHER                   -> s

\* The property a command's PropertiesChanged signal names.
PropertyOf(c) ==
    CASE c.op = "SetPlayback"    -> "PlaybackStatus"
      [] c.op = "SetVolume"      -> "Volume"
      [] c.op = "SetMetadata"    -> "Metadata"
      [] OTHER                   -> "Capabilities"

SignalOf(c) == [prop |-> PropertyOf(c), value |-> c.arg]

\* zbus build: whether applying c calls a *_changed emitter.  SetPermissions
\* emits only for a flag that differs; every other arm always emits.
NeedsEmit(s, c) ==
    IF c.op = "SetPermissions" THEN s.permissions # c.arg ELSE TRUE

\* zbus build: SetPermissions emits before it assigns, the other arms assign
\* before they emit.
AssignsBeforeEmit(c) == c.op # "SetPermissions"

\* zbus build: each *_changed emitter calls the property's getter, which locks
\* the state mutex the worker already holds in the same match arm.  Locking a
\* std::sync::Mutex twice on one thread never returns: it blocks forever or
\* panics.
RelockOutcomes == {"deadlock", "panic"}

(***************************************************************************)
(* Pieces of the handle's code.                                            *)
(***************************************************************************)
\* Connection::new_session + request_name (dbus), connection::Builder ... build (zbus)
ConnectOk == bus = "up"

\* Whether attach spawns the thread before any connection exists.
SpawnsBeforeConnecting == backend \in {"zbus", "legacy"}

\* `if let Some(..) = self.thread.take()`: whether the handle holds a worker.
HoldsWorker_Never == FALSE
HoldsWorker == thread # NoThread

\* A handle operation returns (or unwinds): the embedder sees its result.
Returns(op) ==
    /\ lastOp' = op
    /\ prevOp' = lastOp

\* self.thread after `self.thread.take()`.
ThreadAfterTake_Kept == thread
ThreadAfterTake == NoThread

\* `self.thread.as_ref().ok_or(ThreadNotRunning)?`  (legacy: `.unwrap()`)
NotRunningResult == IF backend = "legacy" THEN "panic" ELSE "ThreadNotRunning"

\* `channel.send(event).map_err(|_| ThreadPanicked)`  (legacy: `.unwrap()`)
SendFailedResult_Silent == "Ok"
SendFailedResult == IF backend = "legacy" THEN "panic" ELSE "ThreadPanicked"

\* mpsc::Sender::send fails exactly when the receiver is gone, that is when
\* run_service has returned or unwound.
ReceiverGone(w) == wStatus[w] = "done"

\* `thread.join().map_err(|_| ThreadPanicked)??`  (legacy: `thread.join().unwrap()`)
JoinResult(w) ==
    IF backend = "legacy"
    THEN IF wResult[w] = "Panicked" THEN "panic" ELSE "Ok"
    ELSE IF wResult[w] = "Panicked" THEN "ThreadPanicked" ELSE wResult[w]

\* What detach returns for a worker that is already gone: the legacy build
\* unwinds in `event_channel.send(Kill).unwrap()` before it joins.
GoneResult(w) == IF backend = "legacy" THEN "panic" ELSE JoinResult(w)
JoinsGone == backend # "legacy"

Live(w) == wStatus[w] \notin {"unborn", "done"}

\* `mpsc::channel()`: the channel is unbounded, so Sender::send never waits for
\* the receiver, whatever the worker is doing.
ChannelHasRoom_Rendezvous(w) == chan[w] = <<>> /\ wStatus[w] = "recv"
ChannelHasRoom(w) == TRUE

\* `self.detach().ok()` in Drop: an Err value is discarded, a panic unwinds
\* through drop.
Ignored(res) == IF res = "panic" THEN "panic" ELSE "Ok"

(***************************************************************************)
(* MediaMetadata and the Metadata property dictionary.                     *)
(***************************************************************************)
\* Option<T>
None == [some |-> FALSE]
Some(x) == [some |-> TRUE, v |-> x]

\* A count of microseconds, written in base 2^21 with the most significant
\* digit first.  Four digits hold every value Duration::as_micros returns
\* (below 2^84); the values an i64 holds are those whose first digit is 0.
Limb == 2^21
Micros(n) == <<0, 0, 0, n>>
I64MaxMicros == <<0, Limb - 1, Limb - 1, Limb - 1>>
FirstOverI64 == <<1, 0, 0, 0>>

\* std::time::Duration: whole microseconds and the nanoseconds beyond them.
Dur(m, ns) == [micros |-> m, subnanos |-> ns]

Durations ==
    { Dur(Micros(0), 0), Dur(Micros(5), 0), Dur(Micros(5), 999),
      Dur(I64MaxMicros, 999), Dur(FirstOverI64, 0) }

\* Duration::as_micros: the whole microseconds, the rest is dropped.
as_micros(d) == d.micros

\* i64::try_from(u128)
TryFromI64(m) == IF m[1] = 0 THEN Some(m) ELSE None

\* The list fields of MediaMetadata that build_metadata_dict! reads besides
\* `artists`, and the singular fields next to them, which it leaves in `..`.
NoOtherNames ==
    [ artist |-> None, album_artist |-> None, album_artists |-> None, genre |-> None,
      genres |-> None, composer |-> None, composers |-> None ]

\* MediaMetadata, one field for each way build_metadata_dict! treats a field:
\* a cloned string (title), a cloned list (artists), a copied integer
\* (track_number), and the duration.
MetadataRecords ==
    { basic @@ NoOtherNames :
          basic \in [ title        : {None, Some("T")},
                      artists      : {None, Some(<<"A", "B">>)},
                      track_number : {None, Some(7)},
                      duration     : {None} \cup {Some(d) : d \in Durations} ] }

\* MediaMetadata with every combination of the list fields and the singular
\* fields of the same names.
NamedMetadataRecords ==
    [ title         : {None},
      track_number  : {None},
      duration      : {None, Some(Dur(Micros(5), 0))},
      artist        : {None, Some("B and A")},
      artists       : {None, Some(<<"B", "A">>)},
      album_artist  : {None, Some("C")},
      album_artists : {None, Some(<<"C", "D">>)},
      genre         : {None, Some("G")},
      genres        : {None, Some(<<"G">>)},
      composer      : {None, Some("K")},
      composers     : {None, Some(<<"K", "J">>)} ]

DefaultMetadata ==
    [title |-> None, artists |-> None, track_number |-> None, duration |-> None]
        @@ NoOtherNames

Covers == {None, Some("file:///cover.png")}

\* insert_if_some!: one entry when the value is present, none otherwise.
insert_if_some(key, value) == IF value.some THEN {<<key, value.v>>} ELSE {}

\* `duration.map(|length| i64::try_from(length.as_micros()).unwrap())` unwinds
\* when the microseconds do not fit an i64.
LengthUnwraps(metadata) ==
    metadata.duration.some /\ ~TryFromI64(as_micros(metadata.duration.v)).some

LengthOf(metadata) ==
    IF metadata.duration.some THEN TryFromI64(as_micros(metadata.duration.v)) ELSE None

\* dict.insert("mpris:trackid", Path "/")
TrackIdEntry_Missing == {}
TrackIdEntry == {<<"mpris:trackid", "/">>}

\* The dictionary as the set of its key/value entries (for a metadata whose
\* length does not unwind).
\* "xesam:artist", artists
ArtistEntry_Fallback(metadata) ==
    insert_if_some("xesam:artist",
                   IF metadata.artists.some THEN metadata.artists
                   ELSE IF metadata.artist.some THEN Some(<<metadata.artist.v>>)
                   ELSE None)
ArtistEntry(metadata) == insert_if_some("xesam:artist", metadata.artists)

create_metadata_dict(metadata, cover_url) ==
    TrackIdEntry
        \cup insert_if_some("mpris:artUrl", cover_url)
        \cup insert_if_some("xesam:title", metadata.title)
        \cup ArtistEntry(metadata)
        \cup insert_if_some("xesam:albumArtist", metadata.album_artists)
        \cup insert_if_some("xesam:genre", metadata.genres)
        \cup insert_if_some("xesam:composer", metadata.composers)
        \cup insert_if_some("mpris:length", LengthOf(metadata))
        \cup insert_if_some("xesam:trackNumber", metadata.track_number)

\* From<MediaMetadata> for OwnedMetadata (legacy build): the fields it keeps.
OwnedMetadata(metadata) ==
    [metadata EXCEPT !.artists = None, !.track_number = None]

Volumes == {"1.0", "0.5"}

\* Playback rates (f64), and their order.
Rates == {"0.5", "1.0", "2.0", "4.0"}
RateTenths(r) ==
    CASE r = "0.5" -> 5
      [] r = "1.0" -> 10
      [] r = "2.0" -> 20
      [] OTHER     -> 40

\* MprisPermissions: three of its capability flags and the two rate limits.
\* The dbus service keeps the limits in ServiceState.minimum_rate and
\* maximum_rate; they are held in the same two fields here.
PermissionRecords ==
    [ can_quit    : BOOLEAN,
      can_go_next : BOOLEAN,
      can_seek    : BOOLEAN,
      min_rate    : {"1.0", "0.5"},
      max_rate    : {"1.0", "2.0"} ]

\* MprisPermissions::none()
NoPermissions ==
    [ can_quit |-> FALSE, can_go_next |-> FALSE, can_seek |-> FALSE,
      min_rate |-> "1.0", max_rate |-> "1.0" ]

DefaultSession ==
    [ status          |-> "serving",
      fault           |-> "none",
      permissions     |-> NoPermissions,
      fullscreen      |-> FALSE,
      playback_status |-> "Stopped",
      progress        |-> None,
      loop_status     |-> "Repeat::None",
      rate            |-> "1.0",
      shuffle         |-> FALSE,
      metadata      |-> DefaultMetadata,
      cover_url     |-> None,
      metadata_dict |-> create_metadata_dict(DefaultMetadata, None),
      volume        |-> "1.0" ]

\* A request as the service sees it: `text` is its string argument (URI, track
\* id, written value), `num` its integer argument (offset, position).
Request(kind, name, text, num) == [kind |-> kind, name |-> name, text |-> text, num |-> num]

NoRequest == Request("none", "none", "", 0)

\* A MediaControlEvent: its variant, with the variant's string payload (URI,
\* written value, seek direction) and its Duration payload.
Event(kind, text, by) == [kind |-> kind, text |-> text, by |-> by]

NoDuration == Dur(Micros(0), 0)

\* Before any handler is registered, any cover requested and any callback
\* added: Mutex::new(event_handler), AtomicUsize::new(1), an empty now-playing
\* dictionary, `handlers: None`.
NoInfo == [metadata |-> "", artwork |-> "", elapsed |-> ""]
BusThreads == 1..MaxBusThreads
PlatformInit ==
    /\ event_handler = [holder |-> 0, poisoned |-> FALSE]
    /\ dispatching = [t \in BusThreads |-> [pc |-> "idle", event |-> ""]]
    /\ GLOBAL_METADATA_COUNTER = 1
    /\ nowPlayingInfo = NoInfo
    /\ loads = <<>>
    /\ controls = [IsEnabled |-> FALSE, registered |-> {}, issued |-> 0]
    /\ handlers = 0

Init ==
    /\ backend \in Backends
    /\ bus \in {"up", "down"}
    /\ thread = NoThread
    /\ nspawned = 0
    /\ callerPc = "idle"
    /\ joinTarget = NoThread
    /\ lastOp = "none"
    /\ prevOp = "none"
    /\ lastRes = "none"
    /\ wStatus = [w \in Workers |-> "unborn"]
    /\ wResult = [w \in Workers |-> "none"]
    /\ wConn = [w \in Workers |-> "none"]
    /\ chan = [w \in Workers |-> <<>>]
    /\ sstate = [w \in Workers |-> DefaultState]
    /\ sent = [w \in Workers |-> <<>>]
    /\ applied = [w \in Workers |-> <<>>]
    /\ signals = [w \in Workers |-> <<>>]
    /\ joins = [w \in Workers |-> 0]
    /\ nsends = 0
    /\ session = DefaultSession
    /\ request = NoRequest
    /\ delivered = <<>>
    /\ emitted = <<>>
    /\ PlatformInit

(***************************************************************************)
(* The handle: attach, detach, setters.                                    *)
(***************************************************************************)
\* A joined (or dropped) JoinHandle: the thread's stack, its ServiceState and
\* its end of the channel no longer exist.
Rel(f, old, d) == [w \in Workers |-> IF w = old THEN d ELSE f[w]]

ReleaseWorker(old) ==
    /\ chan' = Rel(chan, old, <<>>)
    /\ sent' = Rel(sent, old, <<>>)
    /\ sstate' = Rel(sstate, old, DefaultState)
    /\ applied' = Rel(applied, old, <<>>)
    /\ signals' = Rel(signals, old, <<>>)
    /\ wResult' = Rel(wResult, old, "none")

\* The rest of attach once its detach of `old` has returned Ok: connect (dbus
\* build) and spawn.
ConnectAndSpawn(old) ==
    IF ~SpawnsBeforeConnecting /\ ~ConnectOk
    THEN /\ lastRes' = "DbusError"
         /\ thread' = ThreadAfterTake
         /\ wConn' = Rel(wConn, old, "none")
         /\ UNCHANGED <<nspawned, wStatus>>
    ELSE LET w == nspawned + 1 IN
         /\ nspawned' = w
         /\ thread' = w
         /\ wStatus' = [wStatus EXCEPT ![w] = IF SpawnsBeforeConnecting THEN "starting" ELSE "recv"]
         /\ wConn' = [Rel(wConn, old, "none") EXCEPT ![w] = IF SpawnsBeforeConnecting THEN "none" ELSE "alive"]
         /\ lastRes' = "Ok"

\* attach returning the error of its detach of `old`.
AttachFails(old, res) ==
    /\ lastRes' = res
    /\ thread' = ThreadAfterTake
    /\ wConn' = Rel(wConn, old, "none")
    /\ UNCHANGED <<nspawned, wStatus>>

\* `event_channel.send(InternalEvent::Kill)` to a worker that still receives.
SendKill(w) ==
    /\ chan' = [chan EXCEPT ![w] = Append(@, Kill)]
    /\ sent' = [sent EXCEPT ![w] = Append(@, Kill)]

Detach ==
    /\ callerPc = "idle"
    /\ IF ~HoldsWorker
       THEN /\ Returns("detach")
            /\ lastRes' = "Ok"
            /\ UNCHANGED <<thread, callerPc, joinTarget, joins, workerVars>>
       ELSE IF ReceiverGone(thread)
       THEN /\ thread' = ThreadAfterTake
            /\ joins' = [joins EXCEPT ![thread] = IF JoinsGone THEN @ + 1 ELSE @]
            /\ Returns("detach")
            /\ lastRes' = GoneResult(thread)
            /\ ReleaseWorker(thread)
            /\ wConn' = Rel(wConn, thread, "none")
            /\ UNCHANGED <<callerPc, joinTarget, wStatus>>
       ELSE /\ thread' = ThreadAfterTake
            /\ SendKill(thread)
            /\ callerPc' = "detach_join"
            /\ joinTarget' = thread
            /\ UNCHANGED <<lastOp, prevOp, lastRes, joins, wStatus, wResult, wConn,
                           sstate, applied, signals>>
    /\ UNCHANGED <<backend, platformVars, sessionVars, bus, nspawned, nsends>>

DetachJoin ==
    /\ callerPc = "detach_join"
    /\ wStatus[joinTarget] = "done"
    /\ joins' = [joins EXCEPT ![joinTarget] = @ + 1]
    /\ Returns("detach")
    /\ lastRes' = JoinResult(joinTarget)
    /\ callerPc' = "idle"
    /\ joinTarget' = NoThread
    /\ ReleaseWorker(joinTarget)
    /\ wConn' = Rel(wConn, joinTarget, "none")
    /\ UNCHANGED <<backend, platformVars, sessionVars, bus, thread, nspawned, nsends, wStatus>>

Attach ==
    /\ callerPc = "idle"
    /\ nspawned < MaxWorkers
    /\ IF ~HoldsWorker
       THEN /\ Returns("attach")
            /\ ConnectAndSpawn(NoThread)
            /\ UNCHANGED <<callerPc, joinTarget, joins, chan, sent, wResult,
                           sstate, applied, signals>>
       ELSE IF ReceiverGone(thread)
       THEN /\ joins' = [joins EXCEPT ![thread] = IF JoinsGone THEN @ + 1 ELSE @]
            /\ Returns("attach")
            /\ ReleaseWorker(thread)
            /\ IF GoneResult(thread) = "Ok"
               THEN ConnectAndSpawn(thread)
               ELSE AttachFails(thread, GoneResult(thread))
            /\ UNCHANGED <<callerPc, joinTarget>>
       ELSE /\ thread' = ThreadAfterTake
            /\ SendKill(thread)
            /\ callerPc' = "attach_join"
            /\ joinTarget' = thread
            /\ UNCHANGED <<lastOp, prevOp, lastRes, joins, nspawned, wStatus, wConn,
                           wResult, sstate, applied, signals>>
    /\ UNCHANGED <<backend, platformVars, sessionVars, bus, nsends>>

AttachJoin ==
    /\ callerPc = "attach_join"
    /\ wStatus[joinTarget] = "done"
    /\ joins' = [joins EXCEPT ![joinTarget] = @ + 1]
    /\ Returns("attach")
    /\ callerPc' = "idle"
    /\ joinTarget' = NoThread
    /\ ReleaseWorker(joinTarget)
    /\ IF JoinResult(joinTarget) = "Ok"
       THEN ConnectAndSpawn(joinTarget)
       ELSE AttachFails(joinTarget, JoinResult(joinTarget))
    /\ UNCHANGED <<backend, platformVars, sessionVars, bus, nsends>>

\* Drop for MediaControls: `self.detach().ok()`.  The embedder goes on with a
\* handle made by `new`, which holds no worker.
DropHandle ==
    /\ callerPc = "idle"
    /\ IF ~HoldsWorker
       THEN /\ Returns("drop")
            /\ lastRes' = "Ok"
            /\ UNCHANGED <<thread, callerPc, joinTarget, joins, workerVars>>
       ELSE IF ReceiverGone(thread)
       THEN /\ thread' = ThreadAfterTake
            /\ joins' = [joins EXCEPT ![thread] = IF JoinsGone THEN @ + 1 ELSE @]
            /\ Returns("drop")
            /\ lastRes' = Ignored(GoneResult(thread))
            /\ ReleaseWorker(thread)
            /\ wConn' = Rel(wConn, thread, "none")
            /\ UNCHANGED <<callerPc, joinTarget, wStatus>>
       ELSE /\ thread' = ThreadAfterTake
            /\ SendKill(thread)
            /\ callerPc' = "drop_join"
            /\ joinTarget' = thread
            /\ UNCHANGED <<lastOp, prevOp, lastRes, joins, wStatus, wResult, wConn,
                           sstate, applied, signals>>
    /\ UNCHANGED <<backend, platformVars, sessionVars, bus, nspawned, nsends>>

DropJoin ==
    /\ callerPc = "drop_join"
    /\ wStatus[joinTarget] = "done"
    /\ joins' = [joins EXCEPT ![joinTarget] = @ + 1]
    /\ Returns("drop")
    /\ lastRes' = Ignored(JoinResult(joinTarget))
    /\ callerPc' = "idle"
    /\ joinTarget' = NoThread
    /\ ReleaseWorker(joinTarget)
    /\ wConn' = Rel(wConn, joinTarget, "none")
    /\ UNCHANGED <<backend, platformVars, sessionVars, bus, thread, nspawned, nsends, wStatus>>

\* Every typed setter is send_internal_event of its command.
Setter(c) ==
    /\ callerPc = "idle"
    /\ Returns("set")
    /\ IF thread = NoThread
       THEN /\ lastRes' = NotRunningResult
            /\ UNCHANGED <<chan, sent, nsends>>
       ELSE IF ReceiverGone(thread)
       THEN /\ lastRes' = SendFailedResult
            /\ UNCHANGED <<chan, sent, nsends>>
       ELSE /\ nsends < MaxSends
            /\ ChannelHasRoom(thread)
            /\ chan' = [chan EXCEPT ![thread] = Append(@, c)]
            /\ sent' = [sent EXCEPT ![thread] = Append(@, c)]
            /\ nsends' = nsends + 1
            /\ lastRes' = "Ok"
    /\ UNCHANGED <<backend, platformVars, sessionVars, bus, thread, nspawned, callerPc, joinTarget, joins,
                   wStatus, wResult, wConn, sstate, applied, signals>>

(***************************************************************************)
(* The worker thread: run_service.                                         *)
(***************************************************************************)
\* `conn.send(..).ok()`; the legacy build has `c.send(..).unwrap()`, which
\* unwinds when the message cannot be queued.
SendUnwraps == backend = "legacy"

\* What the thread returns when a bus call fails: the legacy closure unwraps
\* run_service's result.
BusFailure == IF backend = "legacy" THEN "Panicked" ELSE "DbusError"

Exit(w, result) ==
    /\ wStatus' = [wStatus EXCEPT ![w] = "done"]
    /\ wResult' = [wResult EXCEPT ![w] = result]

\* zbus, legacy: the thread opens the connection and claims the name itself.
WorkerStart(w) ==
    /\ wStatus[w] = "starting"
    /\ IF ConnectOk
       THEN /\ wStatus' = [wStatus EXCEPT ![w] = "recv"]
            /\ wConn' = [wConn EXCEPT ![w] = "alive"]
            /\ UNCHANGED wResult
       ELSE /\ Exit(w, BusFailure)
            /\ UNCHANGED wConn
    /\ UNCHANGED <<backend, platformVars, sessionVars, bus, callerVars, chan, sstate, sent, applied, signals>>

\* zbus: one `while let Ok(event) = recv_timeout(..)` round.  A round that has
\* received Kill still has to take the interfaces' write locks
\* (`get_mut().await`) before its arm returns: see ZbusReturn.
ZbusRecv(w) ==
    /\ backend = "zbus"
    /\ wStatus[w] = "recv"
    /\ chan[w] # <<>>
    /\ LET c == Head(chan[w]) IN
       /\ chan' = [chan EXCEPT ![w] = Tail(@)]
       /\ IF c = Kill
          THEN /\ wStatus' = [wStatus EXCEPT ![w] = "exiting"]
               /\ UNCHANGED <<wResult, sstate, applied>>
          ELSE IF ~NeedsEmit(sstate[w], c)
          THEN /\ sstate' = [sstate EXCEPT ![w] = ApplyCmd(@, c)]
               /\ applied' = [applied EXCEPT ![w] = Append(@, c)]
               /\ UNCHANGED <<wStatus, wResult>>
          ELSE /\ \E o \in RelockOutcomes :
                     IF o = "deadlock"
                     THEN /\ wStatus' = [wStatus EXCEPT ![w] = "deadlocked"]
                          /\ UNCHANGED wResult
                     ELSE Exit(w, "Panicked")
               /\ IF AssignsBeforeEmit(c)
                  THEN /\ sstate' = [sstate EXCEPT ![w] = ApplyCmd(@, c)]
                       /\ applied' = [applied EXCEPT ![w] = Append(@, c)]
                  ELSE UNCHANGED <<sstate, applied>>
    /\ UNCHANGED <<backend, platformVars, sessionVars, bus, callerVars, wConn, sent, signals>>

\* zbus: `InternalEvent::Kill => return Ok(())`, once the round that received
\* Kill holds both write locks.
ZbusReturn(w) ==
    /\ backend = "zbus"
    /\ wStatus[w] = "exiting"
    /\ Exit(w, "Ok")
    /\ UNCHANGED <<backend, platformVars, sessionVars, bus, callerVars, wConn, chan, sstate, sent, applied, signals>>

\* dbus, legacy: Kill breaks out of the loop before the PropertiesChanged
\* message of the round is built and sent.
EmitsAfter(c) == c # Kill

\* dbus, legacy: `if let Ok(event) = recv_timeout(..) { .. conn.send(..) }`.
DbusRecv(w) ==
    /\ backend \in {"dbus", "legacy"}
    /\ wStatus[w] = "recv"
    /\ IF chan[w] = <<>>
       THEN /\ wStatus' = [wStatus EXCEPT ![w] = "process"]
            /\ UNCHANGED <<wResult, chan, sstate, applied, signals>>
       ELSE LET c == Head(chan[w]) IN
            /\ chan' = [chan EXCEPT ![w] = Tail(@)]
            /\ signals' = [signals EXCEPT ![w] =
                              IF EmitsAfter(c) /\ wConn[w] = "alive"
                              THEN Append(@, SignalOf(c)) ELSE @]
            /\ IF c = Kill
               THEN /\ Exit(w, "Ok")
                    /\ UNCHANGED <<sstate, applied>>
               ELSE /\ sstate' = [sstate EXCEPT ![w] = ApplyCmd(@, c)]
                    /\ applied' = [applied EXCEPT ![w] = Append(@, c)]
                    /\ IF SendUnwraps /\ wConn[w] # "alive"
                       THEN Exit(w, "Panicked")
                       ELSE /\ wStatus' = [wStatus EXCEPT ![w] = "process"]
                            /\ UNCHANGED wResult
    /\ UNCHANGED <<backend, platformVars, sessionVars, bus, callerVars, wConn, sent>>

\* dbus, legacy: `conn.process(Duration::from_millis(1000))?`.
DbusProcess(w) ==
    /\ wStatus[w] = "process"
    /\ IF wConn[w] = "alive"
       THEN /\ wStatus' = [wStatus EXCEPT ![w] = "recv"]
            /\ UNCHANGED wResult
       ELSE Exit(w, BusFailure)
    /\ UNCHANGED <<backend, platformVars, sessionVars, bus, callerVars, wConn, chan, sstate, sent, applied, signals>>

(***************************************************************************)
(* The event handler, run by the service for a remote request.             *)
(***************************************************************************)
\* When the worker's connection dispatches method calls to the interfaces:
\* the dbus builds dispatch inside conn.process on the worker thread; the
\* zbus connection dispatches on its own executor while run_service is in
\* its loop (it never polls the connection itself: it blocks in recv_timeout)
\* and does not hold the interfaces' write locks, which it takes only after
\* recv_timeout has returned a command.  A thread that has left run_service
\* has dropped the connection.
ServesRequests(w) ==
    /\ wConn[w] = "alive"
    /\ wStatus[w] \in (IF backend = "zbus" THEN {"recv", "exiting"} ELSE {"process"})

\* The methods whose handler is `send_event(MediaControlEvent::<name>)`.
UpwardCalls == {"Next", "Previous"}

\* A remote method call served by worker w: the event handler is called with
\* the method's event and returns.
HandleEvent(w, name) ==
    /\ ServesRequests(w)
    /\ request' = Request("method", name, "", 0)
    /\ delivered' = <<Event(name, "", NoDuration)>>
    /\ UNCHANGED <<backend, platformVars, session, emitted, bus, callerVars, workerVars>>

\* The handler receives an event of worker w and, before it returns, calls a
\* setter on the handle: send_internal_event of the setter's command.
HandlerSetter(w, c) ==
    /\ ServesRequests(w)
    /\ request' = Request("method", "Next", "", 0)
    /\ delivered' = <<Event("Next", "", NoDuration)>>
    /\ callerPc = "idle"
    /\ thread = w
    /\ nsends < MaxSends
    /\ ChannelHasRoom(w)
    /\ Returns("handler_set")
    /\ lastRes' = IF ReceiverGone(w) THEN SendFailedResult ELSE "Ok"
    /\ chan' = [chan EXCEPT ![w] = IF ReceiverGone(w) THEN @ ELSE Append(@, c)]
    /\ sent' = [sent EXCEPT ![w] = IF ReceiverGone(w) THEN @ ELSE Append(@, c)]
    /\ nsends' = nsends + 1
    /\ UNCHANGED <<backend, platformVars, session, emitted, bus, thread, nspawned, callerPc, joinTarget,
                   joins, wStatus, wResult, wConn, sstate, applied, signals>>

HandlerNext ==
    \/ \E w \in Workers : \E name \in UpwardCalls : HandleEvent(w, name)
    \/ \E w \in Workers : \E c \in SetterCmds(backend) : HandlerSetter(w, c)

(***************************************************************************)
(* The session bus.                                                        *)
(***************************************************************************)
BusDrop ==
    /\ bus = "up"
    /\ bus' = "down"
    /\ wConn' = [w \in Workers |-> IF Live(w) /\ wConn[w] = "alive" THEN "dead" ELSE wConn[w]]
    /\ UNCHANGED <<backend, platformVars, sessionVars, callerVars, wStatus, wResult, chan, sstate, sent, applied, signals>>

BusRestore ==
    /\ bus = "down"
    /\ bus' = "up"
    /\ UNCHANGED <<backend, platformVars, sessionVars, callerVars, workerVars>>

CallerNext ==
    \/ Attach
    \/ AttachJoin
    \/ Detach
    \/ DetachJoin
    \/ DropHandle
    \/ DropJoin
    \/ \E c \in SetterCmds(backend) : Setter(c)

WorkerNext ==
    \/ \E w \in Workers : WorkerStart(w)
    \/ \E w \in Workers : ZbusRecv(w)
    \/ \E w \in Workers : ZbusReturn(w)
    \/ \E w \in Workers : DbusRecv(w)
    \/ \E w \in Workers : DbusProcess(w)

Next ==
    \/ CallerNext
    \/ WorkerNext
    \/ HandlerNext
    \/ BusDrop
    \/ BusRestore

Spec == Init /\ [][Next]_vars

\* The operating system schedules every runnable thread: a worker that can
\* take a step takes it, and a join whose thread has ended returns.
FairSpec ==
    /\ Spec
    /\ WF_vars(WorkerNext)
    /\ WF_vars(DetachJoin)
    /\ WF_vars(AttachJoin)
    /\ WF_vars(DropJoin)


(***************************************************************************)
(* The serving worker and its bus interfaces: how each setter's command    *)
(* changes the published state, and, below, how remote requests are        *)
(* answered.  Besides the three builds above, "zbus_old" is the service of *)
(* platform/mpris/zbus.rs.                                                 *)
(***************************************************************************)
SessionBuilds == Backends \cup {"zbus_old"}

lifecycleVars == <<bus, thread, nspawned, callerPc, joinTarget, lastOp, prevOp, lastRes,
                   wStatus, wResult, wConn, chan, sstate, sent, applied, signals, joins,
                   nsends>>

\* A handle attached to one worker that serves with the default state.
SessionInit ==
    /\ backend \in SessionBuilds
    /\ bus = "up"
    /\ thread = 1
    /\ nspawned = 1
    /\ callerPc = "idle"
    /\ joinTarget = NoThread
    /\ lastOp = "attach"
    /\ prevOp = "none"
    /\ lastRes = "Ok"
    /\ wStatus = [w \in Workers |-> IF w = 1 THEN "recv" ELSE "unborn"]
    /\ wResult = [w \in Workers |-> "none"]
    /\ wConn = [w \in Workers |-> IF w = 1 THEN "alive" ELSE "none"]
    /\ chan = [w \in Workers |-> <<>>]
    /\ sstate = [w \in Workers |-> DefaultState]
    /\ sent = [w \in Workers |-> <<>>]
    /\ applied = [w \in Workers |-> <<>>]
    /\ signals = [w \in Workers |-> <<>>]
    /\ joins = [w \in Workers |-> 0]
    /\ nsends = 0
    /\ session = DefaultSession
    /\ request = NoRequest
    /\ delivered = <<>>
    /\ emitted = <<>>
    /\ PlatformInit

\* The legacy build converts the metadata (and its duration) in set_metadata,
\* on the embedder's thread; the others build the dictionary in the worker.
ConvertsInCaller == backend = "legacy"

\* platform/mpris/zbus.rs assigns state.metadata and builds the dictionary in
\* the Metadata getter that metadata_changed calls.
AssignsBeforeDict == backend = "zbus_old"

\* zbus/controls.rs: the arm emits while it holds the state lock.
EmitsUnderLock == backend = "zbus"

\* Only the build of mpris/mod.rs has InternalEvent::SetCover.
HasSetCover == backend = "zbus"

PropertySignal(prop, value) == [prop |-> prop, value |-> value]

\* The end of a setter's match arm, once the state `next` is assigned: the
\* property-changed emission.
EmitChanged(next, prop, value) ==
    IF EmitsUnderLock
    THEN /\ \E o \in RelockOutcomes :
                session' = IF o = "deadlock"
                           THEN [next EXCEPT !.status = "blocked"]
                           ELSE [next EXCEPT !.status = "dead", !.fault = "relock_panic"]
         /\ emitted' = <<>>
    ELSE /\ session' = next
         /\ emitted' = <<PropertySignal(prop, value)>>

\* `state.metadata_dict = create_metadata_dict(&metadata, ..)`: the dictionary
\* is built from the incoming record, before that record is stored.
MetadataForDict_Stored(incoming, stored) == stored
MetadataForDict(incoming, stored) == incoming

ServeSetMetadata(metadata) ==
    /\ session.status = "serving"
    /\ request' = Request("setter", "SetMetadata", "", 0)
    /\ delivered' = <<>>
    /\ IF LengthUnwraps(metadata)
       THEN /\ emitted' = <<>>
            /\ session' =
                   IF ConvertsInCaller
                   THEN [session EXCEPT !.fault = "dict_panic"]
                   ELSE IF AssignsBeforeDict
                   THEN [session EXCEPT !.status = "dead", !.fault = "dict_panic",
                                        !.metadata = metadata]
                   ELSE [session EXCEPT !.status = "dead", !.fault = "dict_panic"]
       ELSE LET kept == IF ConvertsInCaller THEN OwnedMetadata(metadata) ELSE metadata
                cover == IF HasSetCover THEN session.cover_url ELSE None
                dict == create_metadata_dict(MetadataForDict(kept, session.metadata), cover)
            IN  EmitChanged([session EXCEPT !.metadata = kept, !.metadata_dict = dict,
                                            !.fault = "none"],
                            "Metadata", dict)
    /\ UNCHANGED <<backend, platformVars, lifecycleVars>>

ServeSetCover(cover) ==
    /\ session.status = "serving"
    /\ HasSetCover
    /\ request' = Request("setter", "SetCover", "", 0)
    /\ delivered' = <<>>
    /\ LET dict == create_metadata_dict(session.metadata, cover)
       IN  EmitChanged([session EXCEPT !.cover_url = cover, !.metadata_dict = dict,
                                       !.fault = "none"],
                       "Metadata", dict)
    /\ UNCHANGED <<backend, platformVars, lifecycleVars>>

ServeSetVolume(volume) ==
    /\ session.status = "serving"
    /\ request' = Request("setter", "SetVolume", volume, 0)
    /\ delivered' = <<>>
    /\ EmitChanged([session EXCEPT !.volume = volume, !.fault = "none"], "Volume", volume)
    /\ UNCHANGED <<backend, platformVars, lifecycleVars>>

SetterServed ==
    \/ \E metadata \in MetadataRecords : ServeSetMetadata(metadata)
    \/ \E cover \in Covers : ServeSetCover(cover)
    \/ \E volume \in Volumes : ServeSetVolume(volume)

(***************************************************************************)
(* Remote requests: what the bus interfaces do with a method call or a     *)
(* property write from a desktop client.                                   *)
(***************************************************************************)
ConstMethods == {"Raise", "Quit", "Next", "Previous", "Pause", "PlayPause", "Stop", "Play"}

SeekOffsets == {-5, 0, 5}
TrackIds == {"/", "/org/other/track"}
Positions == {-1, 0, 5, 6}
Uris == {"file:///a.mp3"}

WritableProperties(b) ==
    CASE b \in {"zbus", "dbus"} -> {"Fullscreen", "LoopStatus", "Rate", "Shuffle", "Volume"}
      [] b = "zbus_old"         -> {"LoopStatus", "Rate", "Shuffle", "Volume"}
      [] OTHER                  -> {"Volume"}

WriteValues(prop) ==
    CASE prop = "Fullscreen" -> {"true"}
      [] prop = "LoopStatus" -> {"Track", "Sometimes"}
      [] prop = "Rate"       -> {"2.0", "4.0"}
      [] prop = "Shuffle"    -> {"true"}
      [] OTHER               -> Volumes

\* The value a Get of the property returns.
Published(s, prop) ==
    CASE prop = "Volume"     -> s.volume
      [] prop = "Metadata"   -> s.metadata_dict
      [] prop = "Fullscreen" -> "false"
      [] prop = "LoopStatus" -> "None"
      [] prop = "Rate"       -> "1.0"
      [] OTHER               -> "false"

\* `(event_handler.lock().unwrap())(event)`: one call of the handler.
Deliver_Twice(event) == <<event, event>>
Deliver(event) == <<event>>

ConstEvent(name) ==
    Event(IF name = "PlayPause" THEN "Toggle" ELSE name, "", NoDuration)

Abs(n) == IF n < 0 THEN 0 - n ELSE n

\* seek(offset): SeekBy(direction, Duration::from_micros(offset.unsigned_abs()))
SeekBy(forward, abs_offset) ==
    Event("SeekBy", IF forward THEN "Forward" ELSE "Backward", Dur(abs_offset, 0))

SeekEvent(offset) == SeekBy(offset > 0, Micros(Abs(offset)))

\* The capability flag MPRIS attaches to a method.
CapabilityOf(name) ==
    CASE name = "Quit" -> "can_quit"
      [] name = "Next" -> "can_go_next"
      [] name = "Seek" -> "can_seek"
      [] OTHER         -> "none"

\* The method handlers call send_event without reading state.permissions.
Permits_Enforced(s, name) ==
    CapabilityOf(name) = "none" \/ s.permissions[CapabilityOf(name)]
Permits(s, name) == TRUE

\* Repeat::from_dbus_value: the wire strings of the three repeat modes decode
\* to their mode, any other string to nothing.
from_dbus_value(wire) ==
    CASE wire = "None"     -> Some("Repeat::None")
      [] wire = "Track"    -> Some("Repeat::Track")
      [] wire = "Playlist" -> Some("Repeat::Playlist")
      [] OTHER             -> None

\* `if let Some(repeat) = Repeat::from_dbus_value(..) { send_event(..) }`
DeliverDecoded_Unwrapped(kind, decoded) ==
    <<Event(kind, IF decoded.some THEN decoded.v ELSE "Repeat::None", NoDuration)>>
DeliverDecoded(kind, decoded) ==
    IF decoded.some THEN Deliver(Event(kind, decoded.v, NoDuration)) ELSE <<>>

\* u64::try_from(position).is_ok()
AcceptsPosition_Any(position) == TRUE
AcceptsPosition(position) == position >= 0

\* a > b, for two counts of microseconds.
MicrosGreater(a, b) ==
    \E i \in 1..4 : a[i] > b[i] /\ \A j \in 1..(i - 1) : a[j] = b[j]

\* Only mpris/dbus.rs and mpris/zbus.rs compare the position with the
\* duration of the current metadata.
ChecksDuration == backend \in {"legacy", "zbus_old"}

BeyondDuration(s, position) ==
    /\ position >= 0
    /\ s.metadata.duration.some
    /\ MicrosGreater(Micros(position), as_micros(s.metadata.duration.v))

SetPositionEvent(position) ==
    Event("SetPosition", "", Dur(Micros(position), 0))

WriteEventKind(prop) ==
    CASE prop = "Fullscreen" -> "SetFullscreen"
      [] prop = "LoopStatus" -> IF backend = "zbus_old" THEN "SetLoop" ELSE "SetRepeat"
      [] prop = "Rate"       -> IF backend = "zbus_old" THEN "SetPlaybackRate" ELSE "SetRate"
      [] prop = "Shuffle"    -> "SetShuffle"
      [] OTHER               -> "SetVolume"

\* What a property write puts on the bus once its setter has run: zbus emits
\* the property's current value, the dbus interfaces return Ok(None), the
\* legacy Volume setter returns Ok(Some(volume)).
WriteSignals(s, prop, value) ==
    CASE backend \in {"zbus", "zbus_old"} -> <<PropertySignal(prop, Published(s, prop))>>
      [] backend = "legacy"               -> <<PropertySignal(prop, value)>>
      [] OTHER                            -> <<>>

CallConst(name) ==
    /\ session.status = "serving"
    /\ request' = Request("method", name, "", 0)
    /\ delivered' = IF Permits(session, name) THEN Deliver(ConstEvent(name)) ELSE <<>>
    /\ emitted' = <<>>
    /\ UNCHANGED <<backend, platformVars, lifecycleVars, session>>

\* The legacy Seek also pushes a Seeked signal.
CallSeek(offset) ==
    /\ session.status = "serving"
    /\ request' = Request("method", "Seek", "", offset)
    /\ delivered' = IF Permits(session, "Seek") THEN Deliver(SeekEvent(offset)) ELSE <<>>
    /\ emitted' = IF backend = "legacy" THEN <<PropertySignal("Seeked", "")>> ELSE <<>>
    /\ UNCHANGED <<backend, platformVars, lifecycleVars, session>>

CallSetPosition(track_id, position) ==
    /\ session.status = "serving"
    /\ request' = Request("method", "SetPosition", track_id, position)
    /\ delivered' = IF /\ AcceptsPosition(position)
                       /\ ~(ChecksDuration /\ BeyondDuration(session, position))
                    THEN Deliver(SetPositionEvent(position))
                    ELSE <<>>
    /\ emitted' = <<>>
    /\ UNCHANGED <<backend, platformVars, lifecycleVars, session>>

CallOpenUri(uri) ==
    /\ session.status = "serving"
    /\ request' = Request("method", "OpenUri", uri, 0)
    /\ delivered' = Deliver(Event("OpenUri", uri, NoDuration))
    /\ emitted' = <<>>
    /\ UNCHANGED <<backend, platformVars, lifecycleVars, session>>

WriteProperty(prop, value) ==
    /\ session.status = "serving"
    /\ prop \in WritableProperties(backend)
    /\ request' = Request("write", prop, value, 0)
    /\ delivered' = IF prop = "LoopStatus"
                    THEN DeliverDecoded(WriteEventKind(prop), from_dbus_value(value))
                    ELSE Deliver(Event(WriteEventKind(prop), value, NoDuration))
    /\ emitted' = WriteSignals(session, prop, value)
    /\ UNCHANGED <<backend, platformVars, lifecycleVars, session>>

RemoteCall ==
    \/ \E name \in ConstMethods : CallConst(name)
    \/ \E offset \in SeekOffsets : CallSeek(offset)
    \/ \E track_id \in TrackIds, position \in Positions : CallSetPosition(track_id, position)
    \/ \E uri \in Uris : CallOpenUri(uri)

RemoteWrite ==
    \E prop \in {"Fullscreen", "LoopStatus", "Rate", "Shuffle", "Volume"} :
        \E value \in WriteValues(prop) : WriteProperty(prop, value)

SessionNext ==
    \/ SetterServed
    \/ RemoteCall
    \/ RemoteWrite

SessionSpec == SessionInit /\ [][SessionNext]_vars

(***************************************************************************)
(* Capabilities and rate limits: the embedder's set_permissions (zbus) and *)
(* set_minimum_rate / set_maximum_rate (dbus, mpris/zbus.rs), next to the  *)
(* remote requests.                                                        *)
(***************************************************************************)
HasPermissions == backend = "zbus"
HasRateLimitSetters == backend \in {"dbus", "zbus_old"}

\* The capability properties in the order the SetPermissions arm compares
\* them, each with the field of MprisPermissions it publishes.
CapabilityProperties ==
    << <<"CanQuit", "can_quit">>, <<"CanGoNext", "can_go_next">>, <<"CanSeek", "can_seek">>,
       <<"MaximumRate", "max_rate">>, <<"MinimumRate", "min_rate">> >>

\* `if state.permissions.x != permissions.x`
Differing(old, new) ==
    SelectSeq(CapabilityProperties, LAMBDA pf : old[pf[2]] # new[pf[2]])

\* The SetPermissions arm: it holds the state mutex, calls one *_changed
\* emitter for each differing field, and assigns the record at the end.  The
\* first emitter it calls locks the mutex again.
ServeSetPermissions(permissions) ==
    /\ session.status = "serving"
    /\ HasPermissions
    /\ request' = Request("setter", "SetPermissions", "", 0)
    /\ delivered' = <<>>
    /\ emitted' = <<>>
    /\ IF Differing(session.permissions, permissions) = <<>>
       THEN session' = [session EXCEPT !.permissions = permissions, !.fault = "none"]
       ELSE \E o \in RelockOutcomes :
                session' = IF o = "deadlock"
                           THEN [session EXCEPT !.status = "blocked"]
                           ELSE [session EXCEPT !.status = "dead", !.fault = "relock_panic"]
    /\ UNCHANGED <<backend, platformVars, lifecycleVars>>

\* The SetMaximumRate and SetMinimumRate arms.
ServeSetRateLimit(field, rate) ==
    /\ session.status = "serving"
    /\ HasRateLimitSetters
    /\ request' = Request("setter", IF field = "max_rate" THEN "SetMaximumRate"
                                                          ELSE "SetMinimumRate", rate, 0)
    /\ delivered' = <<>>
    /\ EmitChanged([session EXCEPT !.permissions[field] = rate, !.fault = "none"],
                   IF field = "max_rate" THEN "MaximumRate" ELSE "MinimumRate", rate)
    /\ UNCHANGED <<backend, platformVars, lifecycleVars>>

LimitsServed ==
    \/ \E permissions \in PermissionRecords : ServeSetPermissions(permissions)
    \/ \E rate \in {"1.0", "2.0"} : ServeSetRateLimit("max_rate", rate)
    \/ \E rate \in {"1.0", "0.5"} : ServeSetRateLimit("min_rate", rate)

PermissionNext ==
    \/ LimitsServed
    \/ RemoteCall
    \/ RemoteWrite

PermissionSpec == SessionInit /\ [][PermissionNext]_vars

(***************************************************************************)
(* Seek over the whole range of its i64 argument.  An offset is its sign   *)
(* and its magnitude (a count below 2^63, or 2^63 for i64::MIN).           *)
(***************************************************************************)
Offset(text, neg, mag) == [text |-> text, neg |-> neg, mag |-> mag]

I64Min == Offset("i64::MIN", TRUE, <<1, 0, 0, 0>>)

WideOffsets ==
    { I64Min,
      Offset("-i64::MAX", TRUE, I64MaxMicros),
      Offset("-5", TRUE, Micros(5)),
      Offset("0", FALSE, Micros(0)),
      Offset("5", FALSE, Micros(5)),
      Offset("i64::MAX", FALSE, I64MaxMicros) }

\* `offset.unsigned_abs()` in the current services, `offset.abs() as u64` in
\* mpris/dbus.rs and linux/mod.rs.
UsesSignedAbs == backend = "legacy"

\* i64::unsigned_abs: the magnitude, for every offset.
unsigned_abs(offset) == {Some(offset.mag)}

\* i64::abs overflows on i64::MIN: with overflow checks the call unwinds,
\* without them it returns i64::MIN, which `as u64` turns into 2^63.
abs_as_u64(offset) ==
    IF offset = I64Min THEN {None, Some(<<1, 0, 0, 0>>)} ELSE {Some(offset.mag)}

AbsOffsets(offset) == IF UsesSignedAbs THEN abs_as_u64(offset) ELSE unsigned_abs(offset)

\* `offset > 0`
IsPositive(offset) == ~offset.neg /\ offset.mag # Micros(0)

\* The Seek method.  A handler that unwinds takes its thread with it.
Seek(offset) ==
    /\ session.status = "serving"
    /\ request' = Request("method", "Seek", offset.text, 0)
    /\ \E abs_offset \in AbsOffsets(offset) :
          IF abs_offset.some
          THEN /\ delivered' = Deliver(SeekBy(IsPositive(offset), abs_offset.v))
               /\ emitted' = IF backend = "legacy" THEN <<PropertySignal("Seeked", "")>>
                                                   ELSE <<>>
               /\ session' = session
          ELSE /\ delivered' = <<>>
               /\ emitted' = <<>>
               /\ session' = [session EXCEPT !.status = "dead", !.fault = "seek_panic"]
    /\ UNCHANGED <<backend, platformVars, lifecycleVars>>

SeekNext ==
    \/ SetterServed
    \/ \E offset \in WideOffsets : Seek(offset)

SeekSpec == SessionInit /\ [][SeekNext]_vars

(***************************************************************************)
(* PlaybackStatus and Position as a remote peer reads them, next to the    *)
(* embedder's set_playback.  The state keeps the MediaPlayback variant in  *)
(* playback_status and the variant's optional MediaPosition in progress.   *)
(***************************************************************************)
Progresses == {None, Some(Dur(Micros(5), 999)), Some(Dur(FirstOverI64, 0))}

Playbacks ==
    {<<"Stopped", None>>} \cup ({"Paused", "Playing"} \X Progresses)

\* The SetPlayback arm.
ServeSetPlayback(variant, progress) ==
    /\ session.status = "serving"
    /\ request' = Request("setter", "SetPlayback", variant, 0)
    /\ delivered' = <<>>
    /\ EmitChanged([session EXCEPT !.playback_status = variant, !.progress = progress,
                                    !.fault = "none"],
                   "PlaybackStatus", variant)
    /\ UNCHANGED <<backend, platformVars, lifecycleVars>>

\* ServiceState::get_playback_status of mpris/dbus.rs and dbus/mod.rs.
get_playback_status(variant) ==
    CASE variant = "Playing" -> "Playing"
      [] variant = "Paused"  -> "Paused"
      [] OTHER               -> "Stopped"

\* MediaPlayback::to_dbus_value, which the other services call.
to_dbus_value(variant) ==
    CASE variant = "Playing" -> "Playing"
      [] variant = "Paused"  -> "Paused"
      [] OTHER               -> "Stopped"

\* The match of the Position getters: the progress of Playing or Paused in
\* whole microseconds, 0 for everything else.
PositionMicros(s) ==
    IF s.playback_status \in {"Playing", "Paused"} /\ s.progress.some
    THEN as_micros(s.progress.v)
    ELSE Micros(0)

\* `position.try_into().unwrap_or(0)`; mpris/dbus.rs has `.try_into().unwrap()`.
PositionUnwraps == backend = "legacy"

\* MediaPlayback::to_micros, which dbus/interfaces.rs calls.
to_micros(s) ==
    IF TryFromI64(PositionMicros(s)).some THEN Some(PositionMicros(s)) ELSE Some(Micros(0))

\* What each service's Position getter returns (None: the getter unwinds).
PositionReply(s) ==
    IF backend = "dbus" THEN to_micros(s)
    ELSE IF TryFromI64(PositionMicros(s)).some THEN Some(PositionMicros(s))
    ELSE IF PositionUnwraps THEN None
    ELSE Some(Micros(0))

\* A remote Get of PlaybackStatus: `emitted` holds the reply.
ReadPlaybackStatus ==
    /\ session.status = "serving"
    /\ request' = Request("get", "PlaybackStatus", "", 0)
    /\ delivered' = <<>>
    /\ emitted' = << PropertySignal("PlaybackStatus",
                                    IF backend = "legacy"
                                    THEN get_playback_status(session.playback_status)
                                    ELSE to_dbus_value(session.playback_status)) >>
    /\ UNCHANGED <<backend, platformVars, lifecycleVars, session>>

\* A remote Get of Position: `emitted` holds the reply.
ReadPosition ==
    /\ session.status = "serving"
    /\ request' = Request("get", "Position", "", 0)
    /\ delivered' = <<>>
    /\ IF PositionReply(session).some
       THEN /\ emitted' = <<PropertySignal("Position", PositionReply(session).v)>>
            /\ session' = session
       ELSE /\ emitted' = <<>>
            /\ session' = [session EXCEPT !.status = "dead", !.fault = "position_panic"]
    /\ UNCHANGED <<backend, platformVars, lifecycleVars>>

ReadoutNext ==
    \/ \E playback \in Playbacks : ServeSetPlayback(playback[1], playback[2])
    \/ \E volume \in Volumes : ServeSetVolume(volume)
    \/ ReadPlaybackStatus
    \/ ReadPosition

ReadoutSpec == SessionInit /\ [][ReadoutNext]_vars

(***************************************************************************)
(* The life of a worker's state: run_service builds it when the thread     *)
(* starts and owns it until the thread is joined.                          *)
(***************************************************************************)
\* detach: the worker is sent Kill and joined.  A worker that blocks for ever
\* is never joined; one that unwound is joined with an error.  `session`
\* keeps what the joined worker's state last held.
SessionDetach ==
    /\ session.status \in {"serving", "dead"}
    /\ request' = Request("handle", "detach", "", 0)
    /\ delivered' = <<>>
    /\ emitted' = <<>>
    /\ session' = [session EXCEPT !.status = "detached"]
    /\ UNCHANGED <<backend, platformVars, lifecycleVars>>

\* `Arc::new(Mutex::new(ServiceState::default()))`, the first statement of
\* run_service (the dbus builds spell the same values out).
FreshState_Kept(old) == [old EXCEPT !.status = "serving", !.fault = "none"]
FreshState(old) == DefaultSession

\* attach, which detaches the worker the handle holds and spawns a new one.
SessionAttach ==
    /\ session.status \in {"serving", "detached"}
    /\ request' = Request("handle", "attach", "", 0)
    /\ delivered' = <<>>
    /\ emitted' = <<>>
    /\ session' = FreshState(session)
    /\ UNCHANGED <<backend, platformVars, lifecycleVars>>

RestartNext ==
    \/ SetterServed
    \/ LimitsServed
    \/ SessionDetach
    \/ SessionAttach

RestartSpec == SessionInit /\ [][RestartNext]_vars

(***************************************************************************)
(* create_metadata_dict as a function of its arguments: the worker is      *)
(* handed one metadata record and one cover, and builds the dictionary.    *)
(***************************************************************************)
\* The builds whose MediaMetadata is the record of metadata.rs.
DictBuilds == {"zbus", "dbus"}

DictInit ==
    /\ SessionInit
    /\ backend \in DictBuilds

\* zbus: create_metadata_dict(&metadata, &state.cover_url);
\* dbus: create_metadata_dict(&metadata), which has no cover.
BuildDict(metadata, cover) ==
    /\ request = NoRequest
    /\ ~LengthUnwraps(metadata)
    /\ request' = Request("build", "create_metadata_dict", "", 0)
    /\ LET cover_url == IF HasSetCover THEN cover ELSE None
       IN  session' = [session EXCEPT !.metadata = metadata,
                                      !.cover_url = cover_url,
                                      !.metadata_dict = create_metadata_dict(metadata, cover_url)]
    /\ UNCHANGED <<backend, platformVars, lifecycleVars, delivered, emitted>>

DictNext == \E metadata \in NamedMetadataRecords, cover \in Covers : BuildDict(metadata, cover)

DictSpec == DictInit /\ [][DictNext]_vars

(***************************************************************************)
(* Vocabulary of the properties.                                           *)
(***************************************************************************)
Range(seq) == {seq[i] : i \in 1..Len(seq)}

IsSetter(c) == c # Kill
SettersOf(seq) == SelectSeq(seq, IsSetter)

IsPrefix(a, b) == Len(a) <= Len(b) /\ SubSeq(b, 1, Len(a)) = a

\* The signals that applying seq, in order, to state s puts on the bus: one
\* per command, none for a SetPermissions that changes no capability.
RECURSIVE SignalsFor(_, _)
SignalsFor(seq, s) ==
    IF seq = <<>> THEN <<>>
    ELSE (IF NeedsEmit(s, Head(seq)) THEN <<SignalOf(Head(seq))>> ELSE <<>>)
             \o SignalsFor(Tail(seq), ApplyCmd(s, Head(seq)))

\* The argument of the last call of setter `op` in seq, or d when there is none.
RECURSIVE LastArg(_, _, _)
LastArg(seq, op, d) ==
    IF seq = <<>> THEN d
    ELSE IF seq[Len(seq)].op = op THEN seq[Len(seq)].arg
    ELSE LastArg(SubSeq(seq, 1, Len(seq) - 1), op, d)

\* The state implied by the last call to each field.
Implied(seq) ==
    [ playback_status |-> LastArg(seq, "SetPlayback", DefaultState.playback_status),
      volume          |-> LastArg(seq, "SetVolume", DefaultState.volume),
      metadata        |-> LastArg(seq, "SetMetadata", DefaultState.metadata),
      permissions     |-> LastArg(seq, "SetPermissions", DefaultState.permissions) ]

\* A worker that will take no further command: its thread has ended, or it is
\* blocked for ever.
Stopped(w) == wStatus[w] \in {"done", "deadlocked"}

\* The shutdown command has been sent to w over a connection that never broke.
ShutDownOnHealthyBus(w) == Kill \in Range(sent[w]) /\ wConn[w] = "alive"

SetterStep == \E c \in SetterCmds(backend) : Setter(c)

(***************************************************************************)
(* C1  Command ordering.  The worker applies the commands in the order     *)
(* they were enqueued, without dropping or merging any; once a detach has  *)
(* sent the shutdown command and the worker has stopped, every setter call *)
(* has been applied, one property-changed signal per call was emitted in   *)
(* the same order, and the state is the one implied by the last call to    *)
(* each field.                                                             *)
(***************************************************************************)
C1_CommandOrdering ==
    \A w \in Workers :
        /\ IsPrefix(applied[w], SettersOf(sent[w]))
        /\ (Stopped(w) /\ ShutDownOnHealthyBus(w)) =>
               /\ applied[w] = SettersOf(sent[w])
               /\ signals[w] = SignalsFor(applied[w], DefaultState)
               /\ sstate[w] = Implied(SettersOf(sent[w]))

(***************************************************************************)
(* C2  Draining.  Once the shutdown command is enqueued, a worker that has *)
(* stopped has applied every command enqueued before it: none is dropped   *)
(* by detach.                                                              *)
(***************************************************************************)
C2_DrainBeforeShutdown ==
    \A w \in Workers :
        (Stopped(w) /\ ShutDownOnHealthyBus(w)) =>
            \A i \in 1..Len(sent[w]) :
                sent[w][i] # Kill =>
                    /\ i <= Len(applied[w])
                    /\ applied[w][i] = sent[w][i]

C4_ShutdownNotStarved ==
    (callerPc \in {"detach_join", "attach_join"}) ~> (callerPc = "idle")

(***************************************************************************)
(* C5  Attach failure leaves no thread.  An attach that reaches its        *)
(* connection attempt while the bus cannot be connected returns an error,  *)
(* spawns nothing and leaves the handle detached.                          *)
(***************************************************************************)
C5_AttachFailureLeavesNoThread ==
    [][ (Attach /\ thread = NoThread /\ ~ConnectOk) =>
            /\ lastRes' # "Ok"
            /\ nspawned' = nspawned
            /\ thread' = NoThread ]_vars

(***************************************************************************)
(* C6  At most one worker per handle.  At most one worker thread is alive  *)
(* at any time, and a worker is spawned only when every worker spawned     *)
(* before it has terminated; when attach replaces a worker it has sent it  *)
(* the shutdown command and joined it first.                               *)
(***************************************************************************)
C6_AtMostOneWorker ==
    [][ /\ Cardinality({w \in Workers : wStatus'[w] \notin {"unborn", "done"}}) <= 1
        /\ (nspawned' > nspawned) =>
               /\ \A w \in Workers : ~Live(w)
               /\ (AttachJoin => /\ wResult[joinTarget] = "Ok"
                                 /\ joins'[joinTarget] = 1) ]_vars

C6_Witness ==
    /\ prevOp = "attach"
    /\ lastOp = "attach"
    /\ lastRes = "Ok"
    /\ nspawned = 2
    /\ wStatus[1] = "done"
    /\ joins[1] = 1
    /\ thread = 2
    /\ Live(2)

(***************************************************************************)
(* C7  A detach of a worker that has already terminated abnormally returns *)
(* that as an error value, ThreadPanicked for a panic and the bus error    *)
(* for a bus error, and does not itself panic.                             *)
(***************************************************************************)
C7_DetachSurfacesWorkerFailure ==
    [][ (Detach /\ HoldsWorker /\ ReceiverGone(thread)
                /\ wResult[thread] \in {"Panicked", "DbusError"}) =>
            lastRes' = (IF wResult[thread] = "Panicked" THEN "ThreadPanicked" ELSE "DbusError") ]_vars

(***************************************************************************)
(* C8  Reconnection by re-attach.  An attach on a handle that still holds  *)
(* a failed worker, called with the bus available, returns Ok and leaves   *)
(* the handle holding a newly spawned, live worker.                        *)
(***************************************************************************)
C8_ReattachReconnects ==
    [][ (Attach /\ HoldsWorker /\ ReceiverGone(thread)
                /\ wResult[thread] # "Ok" /\ ConnectOk) =>
            /\ lastRes' = "Ok"
            /\ thread' # NoThread
            /\ nspawned' = nspawned + 1 ]_vars

(***************************************************************************)
(* C9  Setting before attach.  A setter on a handle that holds no worker   *)
(* returns ThreadNotRunning, does not panic, enqueues nothing and leaves   *)
(* the handle unchanged.                                                   *)
(***************************************************************************)
C9_SetterBeforeAttach ==
    [][ (SetterStep /\ thread = NoThread) =>
            /\ lastRes' = "ThreadNotRunning"
            /\ UNCHANGED <<thread, nsends, workerVars>> ]_vars

C11_SettersNeverWait ==
    [][ /\ (callerPc = "idle" /\ thread # NoThread /\ ~ReceiverGone(thread)
                /\ nsends < MaxSends) =>
               \A c \in SetterCmds(backend) : ENABLED Setter(c)
        /\ \A c \in SetterCmds(backend) :
               (Setter(c) /\ thread # NoThread /\ ~ReceiverGone(thread)) =>
                   /\ lastRes' = "Ok"
                   /\ chan' = [chan EXCEPT ![thread] = Append(@, c)]
                   /\ nsends' = nsends + 1
                   /\ UNCHANGED <<thread, wStatus, wResult, sstate, applied, signals>> ]_vars

\* A setter has returned Ok while the worker is blocked on the state lock and
\* the command it enqueued is still in the channel.
C11_Witness ==
    /\ lastOp = "set"
    /\ lastRes = "Ok"
    /\ thread # NoThread
    /\ wStatus[thread] = "deadlocked"
    /\ chan[thread] # <<>>
    /\ Len(applied[thread]) < Len(sent[thread])

(***************************************************************************)
(* C12  Detach on drop.  A drop of a handle that holds a worker completes  *)
(* only with that worker joined and the handle empty, and it completes     *)
(* without a panic whatever the worker returned.                           *)
(***************************************************************************)
C12_DetachOnDrop ==
    [][ ((DropHandle \/ DropJoin) /\ lastOp' = "drop" /\ callerPc' = "idle") =>
            /\ lastRes' = "Ok"
            /\ thread' = NoThread
            /\ \A w \in Workers :
                   (w = thread \/ w = joinTarget) =>
                       /\ wStatus[w] = "done"
                       /\ joins'[w] = joins[w] + 1 ]_vars

\* C13. Remote requests never mutate session state: a remote method call or
\* a remote property write leaves every field of the session state as it
\* was, and whatever property value it puts on the bus is the value the
\* session currently publishes for that property.
C13_RemoteRequestsNeverMutate ==
    [][ (RemoteCall \/ RemoteWrite) =>
            /\ session' = session
            /\ \A i \in 1..Len(emitted') :
                   emitted'[i].prop \in {"Fullscreen", "LoopStatus", "Rate", "Shuffle",
                                         "Volume", "Metadata"}
                       => emitted'[i].value = Published(session, emitted'[i].prop) ]_vars

\* C14. One upward event per request: a served remote call of Raise, Quit,
\* Next, Previous, Pause, PlayPause, Stop, Play, Seek or OpenUri hands the
\* registered handler exactly one event, of the matching kind: PlayPause
\* gives Toggle, Seek gives SeekBy with the offset's direction and size,
\* OpenUri carries the given URI.
C14_OneEventPerRequest ==
    [][ (RemoteCall /\ request'.name # "SetPosition") =>
            /\ Len(delivered') = 1
            /\ LET n == request'.name
                   e == delivered'[1]
               IN  /\ n \in {"Raise", "Quit", "Next", "Previous", "Pause", "Stop", "Play"}
                          => e.kind = n
                   /\ n = "PlayPause" => e.kind = "Toggle"
                   /\ n = "OpenUri" => e.kind = "OpenUri" /\ e.text = request'.text
                   /\ n = "Seek" =>
                          /\ e.kind = "SeekBy"
                          /\ e.text = (IF request'.num > 0 THEN "Forward" ELSE "Backward")
                          /\ e.by.micros \in {Micros(request'.num), Micros(0 - request'.num)}
                          /\ e.by.subnanos = 0 ]_vars

\* A PlayPause call answered after the embedder changed the volume: the
\* handler received the single Toggle event.
C14_Witness ==
    /\ request.kind = "method"
    /\ request.name = "PlayPause"
    /\ Len(delivered) = 1
    /\ delivered[1].kind = "Toggle"
    /\ session.volume = "0.5"

\* C15. SetPosition sign check: a remote SetPosition with a negative position
\* delivers no event; one with a non-negative position that does not exceed
\* a known duration delivers exactly one SetPosition event carrying exactly
\* the requested number of microseconds, whatever track id was passed.
C15_SetPositionSignCheck ==
    [][ (RemoteCall /\ request'.name = "SetPosition") =>
            LET position == request'.num
                duration == session.metadata.duration
            IN  /\ position < 0 => delivered' = <<>>
                /\ ( /\ position >= 0
                     /\ \/ ~duration.some
                        \/ ~MicrosGreater(Micros(position), duration.v.micros) )
                       => /\ Len(delivered') = 1
                          /\ delivered'[1].kind = "SetPosition"
                          /\ delivered'[1].by = [micros |-> Micros(position), subnanos |-> 0]
          ]_vars

\* A SetPosition to the very end of a track of known duration, with a track
\* id other than the published one, delivered its one event.
C15_Witness ==
    /\ request = Request("method", "SetPosition", "/org/other/track", 5)
    /\ session.metadata.duration = Some(Dur(Micros(5), 999))
    /\ Len(delivered) = 1
    /\ delivered[1].kind = "SetPosition"
    /\ delivered[1].by = Dur(Micros(5), 0)

\* C16. SetPosition upper bound: when the current metadata has a known
\* duration, a remote SetPosition whose position exceeds that duration
\* delivers no event.
C16_SetPositionUpperBound ==
    [][ ( /\ RemoteCall
          /\ request'.name = "SetPosition"
          /\ request'.num >= 0
          /\ session.metadata.duration.some
          /\ MicrosGreater(Micros(request'.num), session.metadata.duration.v.micros) )
            => delivered' = <<>> ]_vars

(***************************************************************************)
(* C17  Diff suppression.  The worker never puts two PlaybackStatus        *)
(* notifications carrying the same status on the bus one after the other:  *)
(* setting the same playback status twice in a row emits at most one.      *)
(***************************************************************************)
C17_DiffSuppression ==
    \A w \in Workers :
        \A i \in 1..(Len(signals[w]) - 1) :
            ~ /\ signals[w][i].prop = "PlaybackStatus"
              /\ signals[w][i + 1] = signals[w][i]
              /\ \E j \in 1..(Len(applied[w]) - 1) :
                     /\ applied[w][j].op = "SetPlayback"
                     /\ applied[w][j + 1] = applied[w][j]

\* C18. Metadata totality: building the property dictionary never fails or
\* panics, whatever optional fields of the metadata are present and whatever
\* the cover reference is.
C18_MetadataTotality == session.fault # "dict_panic"

\* C19. Track identity always present: in every reachable state the Metadata
\* dictionary the service holds contains the key mpris:trackid with the
\* placeholder path "/".
C19_TrackIdAlwaysPresent == <<"mpris:trackid", "/">> \in session.metadata_dict

\* A serving session whose dictionary was rebuilt by set_metadata: it holds
\* the title next to the track identity.
C19_Witness ==
    /\ request.name = "SetMetadata"
    /\ session.status = "serving"
    /\ <<"xesam:title", "T">> \in session.metadata_dict
    /\ <<"mpris:trackid", "/">> \in session.metadata_dict
    /\ Cardinality(session.metadata_dict) >= 3

\* C20. Length encoding: after set_metadata, for every duration the record
\* can hold, the dictionary has mpris:length exactly when the duration is
\* present, and then its value is the duration's whole microseconds, a value
\* an i64 holds; an absent duration leaves no length entry.
C20_LengthEncoding ==
    [][ request'.name = "SetMetadata" =>
            \A md \in MetadataRecords :
                ServeSetMetadata(md) =>
                    LET lens == {e \in session'.metadata_dict : e[1] = "mpris:length"}
                    IN  /\ session'.fault # "dict_panic"
                        /\ md.duration.some =>
                               /\ lens = {<<"mpris:length", md.duration.v.micros>>}
                               /\ md.duration.v.micros[1] = 0
                        /\ ~md.duration.some => lens = {} ]_vars

\* C21. Cover and metadata are independent: set_cover(Some(url)) leaves the
\* service publishing a dictionary with mpris:artUrl = url and every entry
\* it had from the metadata; set_cover(None) removes only mpris:artUrl; a
\* set_metadata keeps the mpris:artUrl that was there; and mpris:artUrl is
\* present exactly when a cover is set.
C21_CoverAndMetadataIndependent ==
    [][ LET ArtUrl(d) == {e \in d : e[1] = "mpris:artUrl"}
        IN  /\ \A cover \in Covers :
                   ServeSetCover(cover) =>
                       /\ session'.status = "serving"
                       /\ session'.metadata_dict \ ArtUrl(session'.metadata_dict)
                              = session.metadata_dict \ ArtUrl(session.metadata_dict)
                       /\ ArtUrl(session'.metadata_dict)
                              = IF cover.some THEN {<<"mpris:artUrl", cover.v>>} ELSE {}
            /\ (request'.name = "SetMetadata" /\ SetterServed)
                   => ArtUrl(session'.metadata_dict) = ArtUrl(session.metadata_dict)
            /\ (ArtUrl(session'.metadata_dict) # {}) = session'.cover_url.some ]_vars

\* C22. Capabilities are published, never enforced: a remote Quit, Next or
\* Seek hands its event to the handler whatever the capability flags are, in
\* particular while CanQuit, CanGoNext or CanSeek is false.
C22_CapabilitiesNotEnforced ==
    [][ \A name \in {"Quit", "Next", "Seek"} :
            (RemoteCall /\ request'.name = name) =>
                LET flag == CASE name = "Quit" -> session.permissions.can_quit
                              [] name = "Next" -> session.permissions.can_go_next
                              [] OTHER         -> session.permissions.can_seek
                IN  \A value \in BOOLEAN :
                        flag = value =>
                            /\ Len(delivered') = 1
                            /\ delivered'[1].kind = (IF name = "Seek" THEN "SeekBy" ELSE name)
      ]_vars

\* The zbus service, whose CanGoNext is false, answered a remote Next: the
\* handler received the Next event.
C22_Witness ==
    /\ backend = "zbus"
    /\ request = Request("method", "Next", "", 0)
    /\ ~session.permissions.can_go_next
    /\ Len(delivered) = 1
    /\ delivered[1].kind = "Next"

\* C23. Rate limits filter events: once the embedder has set a minimum and a
\* maximum rate, a remote write of Rate outside [min, max] delivers no event.
C23_RateLimitsFilter ==
    [][ ( /\ RemoteWrite
          /\ request'.name = "Rate"
          /\ session.permissions.min_rate = "0.5"
          /\ session.permissions.max_rate = "2.0"
          /\ \/ RateTenths(request'.text) < 5
             \/ RateTenths(request'.text) > 20 )
            => delivered' = <<>> ]_vars

\* C24. Unrecognized LoopStatus is a no-op: a remote write of LoopStatus with
\* a string that is not the wire value of a repeat mode delivers no event,
\* changes no state and does not panic; a recognized string delivers exactly
\* one SetRepeat event carrying the mode it names.
C24_UnrecognizedLoopStatus ==
    [][ (RemoteWrite /\ request'.name = "LoopStatus" /\ backend \in Backends) =>
            /\ session' = session
            /\ IF request'.text \in {"None", "Track", "Playlist"}
               THEN /\ Len(delivered') = 1
                    /\ delivered'[1].kind = "SetRepeat"
                    /\ delivered'[1].text =
                           (CASE request'.text = "None"  -> "Repeat::None"
                              [] request'.text = "Track" -> "Repeat::Track"
                              [] OTHER                   -> "Repeat::Playlist")
               ELSE delivered' = <<>> ]_vars

\* A write of LoopStatus = "Sometimes" was answered: nothing was delivered and
\* the service still serves.
C24_Witness ==
    /\ request = Request("write", "LoopStatus", "Sometimes", 0)
    /\ backend \in Backends
    /\ delivered = <<>>
    /\ session.status = "serving"
    /\ session.fault = "none"

\* C25. Fresh defaults per worker: a worker that has just been started, by
\* the first attach or by an attach after setters and a detach, holds the
\* default state: Stopped, repeat None, rate 1.0, shuffle and fullscreen
\* false, volume 1.0, every capability flag false with both rate limits 1.0,
\* a metadata with no field set, no cover, and a dictionary whose only entry
\* is mpris:trackid.
C25_FreshDefaultsPerWorker ==
    (request = NoRequest \/ request.name = "attach") =>
        /\ session.status = "serving"
        /\ session.playback_status = "Stopped"
        /\ session.loop_status = "Repeat::None"
        /\ session.rate = "1.0"
        /\ session.shuffle = FALSE
        /\ session.volume = "1.0"
        /\ session.fullscreen = FALSE
        /\ session.permissions =
               [ can_quit |-> FALSE, can_go_next |-> FALSE, can_seek |-> FALSE,
                 min_rate |-> "1.0", max_rate |-> "1.0" ]
        /\ \A field \in DOMAIN session.metadata : session.metadata[field] = None
        /\ session.cover_url = None
        /\ session.metadata_dict = {<<"mpris:trackid", "/">>}

\* A worker started by attach on the dbus build, whose handle had a worker
\* before it.
C25_Witness ==
    /\ backend = "dbus"
    /\ request = Request("handle", "attach", "", 0)
    /\ session.status = "serving"
    /\ session.metadata_dict = {<<"mpris:trackid", "/">>}

\* C26. Setters inside the handler: when the event handler, handling an
\* upward event of the attached worker, has called a setter (the only command
\* the worker was ever sent) and the connection has not broken, the setter
\* returned Ok, the worker neither blocks for ever nor unwinds, and once the
\* channel is empty again the worker has applied the command.
C26_SettersInsideHandler ==
    \A w \in Workers :
        ( /\ lastOp = "handler_set"
          /\ thread = w
          /\ Len(sent[w]) = 1
          /\ wConn[w] = "alive" ) =>
            /\ lastRes = "Ok"
            /\ wStatus[w] # "deadlocked"
            /\ wResult[w] # "Panicked"
            /\ chan[w] = <<>> => applied[w] = sent[w]

\* C27. Diff-before-emit for permissions: applying SetPermissions leaves the
\* service serving with the new record stored, and emits a change
\* notification for exactly the capability properties whose new value
\* differs from the stored one, none when the record is equal.
C27_PermissionsDiffBeforeEmit ==
    [][ \A permissions \in PermissionRecords :
            ServeSetPermissions(permissions) =>
                LET changed == SelectSeq(<< <<"CanQuit", "can_quit">>,
                                            <<"CanGoNext", "can_go_next">>,
                                            <<"CanSeek", "can_seek">>,
                                            <<"MaximumRate", "max_rate">>,
                                            <<"MinimumRate", "min_rate">> >>,
                                         LAMBDA pf : session.permissions[pf[2]]
                                                         # permissions[pf[2]])
                IN  /\ session'.status = "serving"
                    /\ session'.permissions = permissions
                    /\ Len(emitted') = Len(changed)
                    /\ \A i \in 1..Len(changed) :
                           /\ emitted'[i].prop = changed[i][1]
                           /\ emitted'[i].value = permissions[changed[i][2]] ]_vars

\* C28. Drain before I/O: when the worker turns to a round of inbound bus
\* I/O, none of the commands that were queued when it last polled the
\* channel is still unapplied.
C28_DrainBeforeIO ==
    [][ \A w \in Workers :
            (wStatus[w] = "recv" /\ wStatus'[w] = "process") => chan'[w] = <<>> ]_vars

\* C29. Silence after shutdown: in the step in which a worker dequeues the
\* shutdown command it puts no signal on the bus, and from then on, for as
\* long as the thread has not been joined, its signals do not grow and no
\* upward event is handed to the event handler on its behalf.
KillDequeued(w) ==
    \/ wStatus[w] = "exiting"
    \/ wStatus[w] = "done" /\ wResult[w] = "Ok"

DequeuesKill(w) ==
    /\ wStatus[w] = "recv"
    /\ chan[w] # <<>>
    /\ Head(chan[w]) = Kill
    /\ chan'[w] = Tail(chan[w])

C29_SilenceAfterShutdown ==
    [][ \A w \in Workers :
            /\ DequeuesKill(w) => signals'[w] = signals[w]
            /\ KillDequeued(w) =>
                   /\ Len(signals'[w]) <= Len(signals[w])
                   /\ \A name \in UpwardCalls : ~HandleEvent(w, name) ]_vars

\* C30. No reconciliation between list and singular fields: the dictionary
\* has xesam:artist, xesam:albumArtist, xesam:genre and xesam:composer exactly
\* when the list fields artists, album_artists, genres and composers are
\* present, each holding its list in input order, and the singular fields
\* artist, album_artist, genre and composer change no entry: the dictionary
\* is the one built from the same record without them.
C30_ListsAndSingularsApart ==
    request.name = "create_metadata_dict" =>
        LET m == session.metadata
            d == session.metadata_dict
            Entries(key) == {e \in d : e[1] = key}
            Expected(key, list) == IF list.some THEN {<<key, list.v>>} ELSE {}
        IN  /\ Entries("xesam:artist") = Expected("xesam:artist", m.artists)
            /\ Entries("xesam:albumArtist") = Expected("xesam:albumArtist", m.album_artists)
            /\ Entries("xesam:genre") = Expected("xesam:genre", m.genres)
            /\ Entries("xesam:composer") = Expected("xesam:composer", m.composers)
            /\ d = create_metadata_dict([m EXCEPT !.artist = None, !.album_artist = None,
                                                  !.genre = None, !.composer = None],
                                        session.cover_url)

\* A record with the singular artist and genre but none of the lists: its
\* dictionary has neither xesam:artist nor xesam:genre.
C30_Witness ==
    /\ request.name = "create_metadata_dict"
    /\ session.metadata.artist = Some("B and A")
    /\ session.metadata.genre = Some("G")
    /\ ~session.metadata.artists.some
    /\ ~session.metadata.genres.some
    /\ session.metadata.composers = Some(<<"K", "J">>)
    /\ <<"xesam:composer", <<"K", "J">>>> \in session.metadata_dict
    /\ \A e \in session.metadata_dict : e[1] \notin {"xesam:artist", "xesam:genre"}

\* C31. Cache coherence: whenever the state lock is free (the worker serves),
\* and also in the state a worker leaves behind when it stops inside a change
\* emission, the cached dictionary is the dictionary built from the stored
\* metadata and the stored cover URL.
C31_CacheCoherence ==
    (session.status \in {"serving", "blocked"} \/ session.fault = "relock_panic") =>
        session.metadata_dict = create_metadata_dict(session.metadata, session.cover_url)

\* The dbus build serving after a set_metadata that stored a title.
C31_Witness ==
    /\ backend = "dbus"
    /\ session.status = "serving"
    /\ request.name = "SetMetadata"
    /\ session.metadata.title = Some("T")
    /\ <<"xesam:title", "T">> \in session.metadata_dict

\* C32. No self-deadlock while applying a command: a worker on an unbroken
\* connection that dequeues a command other than the shutdown command makes
\* the command's assignment and is then ready for the next command (it
\* receives again, or turns to its round of bus I/O); it never blocks for
\* ever and never unwinds inside the command's arm.
DequeuesCommand(w) ==
    /\ wStatus[w] = "recv"
    /\ wConn[w] = "alive"
    /\ chan[w] # <<>>
    /\ Head(chan[w]) # Kill
    /\ chan'[w] = Tail(chan[w])

C32_NoSelfDeadlock ==
    [][ \A w \in Workers :
            DequeuesCommand(w) =>
                /\ applied'[w] = Append(applied[w], Head(chan[w]))
                /\ wStatus'[w] \in {"recv", "process"} ]_vars

\* C33. Notifications carry the new value: every notification a setter's arm
\* puts on the bus reports the value the state holds once the arm is done,
\* and whenever the SetPermissions arm has called a change emitter (whose
\* value is what the property's getter reads from the state), the state
\* already holds the permissions the command carries.
StoredValue(s, prop) ==
    CASE prop = "MaximumRate" -> s.permissions.max_rate
      [] prop = "MinimumRate" -> s.permissions.min_rate
      [] prop = "Volume"      -> s.volume
      [] OTHER                -> s.metadata_dict

C33_NotificationsCarryNewValue ==
    [][ /\ request'.kind = "setter" =>
               \A i \in 1..Len(emitted') :
                   emitted'[i].value = StoredValue(session', emitted'[i].prop)
        /\ \A permissions \in PermissionRecords :
               (ServeSetPermissions(permissions) /\ session'.status # "serving")
                   => session'.permissions = permissions ]_vars

\* C34. Seek mapping: a served Seek(offset), for every offset an i64 holds,
\* the minimum included, hands the handler exactly one SeekBy event whose
\* duration is the offset's magnitude in whole microseconds and whose
\* direction is Forward exactly when the offset is positive (so 0 gives
\* Backward with a zero duration), and the service goes on serving.
C34_SeekMapping ==
    [][ \A offset \in WideOffsets :
            (request'.name = "Seek" /\ request'.text = offset.text /\ Seek(offset)) =>
                /\ session' = session
                /\ delivered' =
                       << Event("SeekBy",
                                IF offset.text \in {"5", "i64::MAX"} THEN "Forward"
                                                                     ELSE "Backward",
                                Dur(offset.mag, 0)) >> ]_vars

\* C35. Position and status readout: once a set_playback has been applied the
\* service still answers reads; a read of PlaybackStatus is answered with
\* "Playing", "Paused" or "Stopped" after the stored variant; a read of
\* Position is answered with the stored progress in whole microseconds when
\* the variant is Playing or Paused with a progress an i64 holds, and with 0
\* otherwise.
C35_PositionAndStatusReadout ==
    [][ /\ request'.name = "SetPlayback" => session'.status = "serving"
        /\ ReadPlaybackStatus =>
               /\ Len(emitted') = 1
               /\ emitted'[1].value \in {"Playing", "Paused", "Stopped"}
               /\ emitted'[1].value = session.playback_status
        /\ ReadPosition =>
               /\ Len(emitted') = 1
               /\ emitted'[1].value =
                      IF /\ session.playback_status \in {"Playing", "Paused"}
                         /\ session.progress.some
                         /\ session.progress.v.micros[1] = 0
                      THEN session.progress.v.micros
                      ELSE <<0, 0, 0, 0>> ]_vars

\* C36. A worker failure is reported once and leaves the handle detached:
\* when detach, or attach through its leading detach, returns an error, the
\* handle holds no worker and no worker has been spawned; from then on the
\* next detach returns Ok, the next setter returns ThreadNotRunning and
\* enqueues nothing, and the next attach behaves as on a new handle (it
\* spawns a worker and returns Ok, or returns its own connection error).
FailureResults == {"ThreadPanicked", "DbusError"}

FailureReported ==
    /\ callerPc = "idle"
    /\ lastOp \in {"detach", "attach"}
    /\ lastRes \in FailureResults

C36_FailureLeavesDetached ==
    [][ /\ ((Detach \/ DetachJoin \/ Attach \/ AttachJoin) /\ FailureReported') =>
               /\ thread' = NoThread
               /\ nspawned' = nspawned
        /\ FailureReported =>
               /\ Detach => lastRes' = "Ok" /\ thread' = NoThread
               /\ (\E c \in SetterCmds(backend) : Setter(c)) =>
                      lastRes' = "ThreadNotRunning" /\ chan' = chan
               /\ Attach =>
                      /\ callerPc' = "idle"
                      /\ lastRes' = IF ~SpawnsBeforeConnecting /\ ~ConnectOk
                                    THEN "DbusError" ELSE "Ok"
                      /\ lastRes' = "Ok" =>
                             /\ thread' = nspawned + 1
                             /\ nspawned' = nspawned + 1
                             /\ wStatus'[thread'] \in {"starting", "recv"} ]_vars

C36_Witness ==
    /\ FailureReported
    /\ lastRes = "ThreadPanicked"
    /\ thread = NoThread
    /\ nspawned = 1
    /\ joins[1] = 1

(***************************************************************************)
(* The registered event handler behind its mutex.  Every method of either  *)
(* interface ends in `(event_handler.lock().unwrap())(event)`: the thread  *)
(* that processes the call locks the one Mutex both interfaces share,      *)
(* runs the handler under the guard and drops the guard when the handler   *)
(* returns or unwinds.                                                     *)
(***************************************************************************)
MaxDeliveries == 3

\* Methods of org.mpris.MediaPlayer2 (AppInterface) and of
\* org.mpris.MediaPlayer2.Player (PlayerInterface) and the events they send.
AppMethods == {"Raise", "Quit"}
PlayerMethods == {"Next", "Play"}

\* The threads that process incoming calls: the worker itself in the dbus
\* builds (conn.process in its loop), the connection's executor in zbus.
ProcessingThreads == IF backend \in {"zbus", "zbus_old"} THEN BusThreads ELSE {1}

\* Mutex::lock blocks while another thread holds the guard.
MutexFree_Unguarded == TRUE
MutexFree == event_handler.holder = 0

\* A remote call arrives on a processing thread, whose method calls send_event.
MethodCall(t, event) ==
    /\ t \in ProcessingThreads
    /\ dispatching[t].pc = "idle"
    /\ Len(delivered) < MaxDeliveries
    /\ dispatching' = [dispatching EXCEPT ![t] = [pc |-> "locking", event |-> event]]
    /\ request' = Request("method", event, "", t)
    /\ UNCHANGED <<backend, lifecycleVars, session, delivered, emitted, event_handler,
                   GLOBAL_METADATA_COUNTER, nowPlayingInfo, loads, controls, handlers>>

\* `event_handler.lock().unwrap()` returns: the handler starts on the event,
\* or, the mutex being poisoned, the unwrap unwinds and the guard is dropped.
LockHandler(t) ==
    /\ dispatching[t].pc = "locking"
    /\ MutexFree
    /\ IF event_handler.poisoned
       THEN /\ dispatching' = [dispatching EXCEPT ![t] = [pc |-> "panicked", event |-> ""]]
            /\ UNCHANGED <<event_handler, delivered>>
       ELSE /\ dispatching' = [dispatching EXCEPT ![t].pc = "running"]
            /\ event_handler' = [event_handler EXCEPT !.holder = t]
            /\ delivered' = Append(delivered, Event(dispatching[t].event, "", NoDuration))
    /\ UNCHANGED <<backend, lifecycleVars, session, request, emitted,
                   GLOBAL_METADATA_COUNTER, nowPlayingInfo, loads, controls, handlers>>

\* The handler returns; the guard is dropped at the end of the statement.
HandlerReturns(t) ==
    /\ dispatching[t].pc = "running"
    /\ dispatching' = [dispatching EXCEPT ![t] = [pc |-> "idle", event |-> ""]]
    /\ event_handler' = [event_handler EXCEPT !.holder = 0]
    /\ UNCHANGED <<backend, lifecycleVars, sessionVars,
                   GLOBAL_METADATA_COUNTER, nowPlayingInfo, loads, controls, handlers>>

\* The handler panics: the guard is dropped during unwinding, which poisons
\* the mutex.
HandlerPanics(t) ==
    /\ dispatching[t].pc = "running"
    /\ dispatching' = [dispatching EXCEPT ![t] = [pc |-> "panicked", event |-> ""]]
    /\ event_handler' = [holder |-> 0, poisoned |-> TRUE]
    /\ UNCHANGED <<backend, lifecycleVars, sessionVars,
                   GLOBAL_METADATA_COUNTER, nowPlayingInfo, loads, controls, handlers>>

DispatchNext ==
    \/ \E t \in BusThreads, event \in AppMethods \cup PlayerMethods : MethodCall(t, event)
    \/ \E t \in BusThreads : LockHandler(t)
    \/ \E t \in BusThreads : HandlerReturns(t)
    \/ \E t \in BusThreads : HandlerPanics(t)

DispatchSpec == SessionInit /\ [][DispatchNext]_vars

Running == {t \in BusThreads : dispatching[t].pc = "running"}

\* C37. Upward events are delivered one at a time: at no moment is the
\* registered handler running on two processing threads, whichever interface
\* the calls came in on; the thread that runs it holds the handler's mutex.
C37_OneEventAtATime ==
    /\ Cardinality(Running) <= 1
    /\ \A t \in Running : event_handler.holder = t

\* The handler runs an application-interface event while a player-interface
\* call waits on another thread.
C37_Witness ==
    \E t, u \in BusThreads :
        /\ dispatching[t].pc = "running" /\ dispatching[t].event \in AppMethods
        /\ dispatching[u].pc = "locking" /\ dispatching[u].event \in PlayerMethods

(***************************************************************************)
(* The Apple backend (platform/apple/mod.rs).  The handle has no state of  *)
(* its own: the setters write to MPNowPlayingInfoCenter, whose             *)
(* nowPlayingInfo dictionary is modelled by its artwork entry, its         *)
(* elapsed-time entry and its metadata-derived entries taken together.     *)
(* set_cover loads the image on the global dispatch queue, so each load    *)
(* runs concurrently with the embedder's thread and with the other loads.  *)
(***************************************************************************)
MaxCovers == 2

\* The handle of a platform other than MPRIS: no worker, no service state.
PlatformHandleInit(platform) ==
    /\ backend = platform
    /\ bus = "up"
    /\ thread = NoThread
    /\ nspawned = 0
    /\ callerPc = "idle"
    /\ joinTarget = NoThread
    /\ lastOp = "none"
    /\ prevOp = "none"
    /\ lastRes = "none"
    /\ wStatus = [w \in Workers |-> "unborn"]
    /\ wResult = [w \in Workers |-> "none"]
    /\ wConn = [w \in Workers |-> "none"]
    /\ chan = [w \in Workers |-> <<>>]
    /\ sstate = [w \in Workers |-> DefaultState]
    /\ sent = [w \in Workers |-> <<>>]
    /\ applied = [w \in Workers |-> <<>>]
    /\ signals = [w \in Workers |-> <<>>]
    /\ joins = [w \in Workers |-> 0]
    /\ nsends = 0
    /\ session = DefaultSession
    /\ request = NoRequest
    /\ delivered = <<>>
    /\ emitted = <<>>
    /\ PlatformInit

AppleInit == PlatformHandleInit("apple")

\* Option<AppleCover>: None, or an image named by what it shows.
AppleCovers == {None, Some("A"), Some("B")}
AppleMetadata == {"M1"}
AppleProgresses == {None, Some("10s")}

\* `setObject: nil forKey:` on an NSMutableDictionary: Foundation raises
\* NSInvalidArgumentException, which unwinds through msg_send!; where it does
\* not, the set_playback_artwork(nil) goes through with an empty entry.
NilArtworkOutcomes == {"stored", "raised"}

\* set_playback_artwork(artwork) in one piece, as the embedder's thread runs it.
set_playback_artwork(info, artwork) == [info EXCEPT !.artwork = artwork]

\* Apple::set_cover
set_cover(cover) ==
    /\ GLOBAL_METADATA_COUNTER <= MaxCovers
    /\ GLOBAL_METADATA_COUNTER' = GLOBAL_METADATA_COUNTER + 1
    /\ IF cover.some
       THEN /\ loads' = Append(loads, [pc |-> "queued",
                                       for_counter |-> GLOBAL_METADATA_COUNTER + 1,
                                       image |-> cover.v,
                                       prev |-> NoInfo])
            /\ request' = Request("call", "set_cover", cover.v, 0)
            /\ UNCHANGED nowPlayingInfo
       ELSE /\ \E outcome \in NilArtworkOutcomes :
                  /\ request' = Request("call", "set_cover", outcome, 0)
                  /\ nowPlayingInfo' = IF outcome = "stored"
                                       THEN set_playback_artwork(nowPlayingInfo, "")
                                       ELSE nowPlayingInfo
            /\ UNCHANGED loads
    /\ UNCHANGED <<backend, lifecycleVars, session, delivered, emitted,
                   event_handler, dispatching, controls, handlers>>

\* load_and_set_artwork's block: `loader()` and mp_artwork.
LoadImage(i) ==
    /\ loads[i].pc = "queued"
    /\ loads' = [loads EXCEPT ![i].pc = "loaded"]
    /\ UNCHANGED <<backend, lifecycleVars, sessionVars, event_handler, dispatching,
                   GLOBAL_METADATA_COUNTER, nowPlayingInfo, controls, handlers>>

\* `if GLOBAL_METADATA_COUNTER.load(SeqCst) == for_counter`
CheckCounter(i) ==
    /\ loads[i].pc = "loaded"
    /\ loads' = [loads EXCEPT ![i].pc =
                    IF GLOBAL_METADATA_COUNTER = loads[i].for_counter THEN "checked"
                                                                      ELSE "done"]
    /\ UNCHANGED <<backend, lifecycleVars, sessionVars, event_handler, dispatching,
                   GLOBAL_METADATA_COUNTER, nowPlayingInfo, controls, handlers>>

\* set_playback_artwork on the queue's thread: `msg_send!(media_center, nowPlayingInfo)`
ReadNowPlaying(i) ==
    /\ loads[i].pc = "checked"
    /\ loads' = [loads EXCEPT ![i].pc = "copied", ![i].prev = nowPlayingInfo]
    /\ UNCHANGED <<backend, lifecycleVars, sessionVars, event_handler, dispatching,
                   GLOBAL_METADATA_COUNTER, nowPlayingInfo, controls, handlers>>

\* ... and `setNowPlayingInfo: now_playing`, the copy with the artwork added.
StoreArtwork(i) ==
    /\ loads[i].pc = "copied"
    /\ nowPlayingInfo' = set_playback_artwork(loads[i].prev, loads[i].image)
    /\ loads' = [loads EXCEPT ![i].pc = "done"]
    /\ UNCHANGED <<backend, lifecycleVars, sessionVars, event_handler, dispatching,
                   GLOBAL_METADATA_COUNTER, controls, handlers>>

LoadNext ==
    \E i \in 1..Len(loads) :
        LoadImage(i) \/ CheckCounter(i) \/ ReadNowPlaying(i) \/ StoreArtwork(i)

CoverNext ==
    \/ \E cover \in AppleCovers : set_cover(cover)
    \/ LoadNext

\* An embedder that only sets covers.
CoverSpec == AppleInit /\ [][CoverNext]_vars

AllLoadsDone == \A i \in 1..Len(loads) : loads[i].pc = "done"

\* The artwork the most recent set_cover asked for ("": none).
LatestCover ==
    IF Len(loads) > 0 /\ loads[Len(loads)].for_counter = GLOBAL_METADATA_COUNTER
    THEN loads[Len(loads)].image
    ELSE ""

\* C38. Latest cover wins: when set_cover has been called and every load it
\* queued has run to its end, the artwork entry of the now-playing info is
\* the image of the most recent set_cover call, or absent if that call
\* passed None.
C38_LatestCoverWins ==
    (GLOBAL_METADATA_COUNTER > 1 /\ AllLoadsDone) => nowPlayingInfo.artwork = LatestCover

\* Apple::set_metadata, set_playback_metadata: a new NSMutableDictionary that
\* receives the metadata's entries only and is stored with setNowPlayingInfo.
set_playback_metadata(metadata) == [metadata |-> metadata, artwork |-> "", elapsed |-> ""]

set_metadata(metadata) ==
    /\ request' = Request("call", "set_metadata", metadata, 0)
    /\ nowPlayingInfo' = set_playback_metadata(metadata)
    /\ UNCHANGED <<backend, lifecycleVars, session, delivered, emitted, event_handler,
                   dispatching, GLOBAL_METADATA_COUNTER, loads, controls, handlers>>

\* set_playback_progress(progress): the previous dictionary with the elapsed
\* time replaced.
set_playback_progress(info, progress) == [info EXCEPT !.elapsed = progress]

\* Apple::set_playback, set_playback_status: setPlaybackState, and the progress
\* when the variant carries one.
set_playback(progress) ==
    /\ request' = Request("call", "set_playback", IF progress.some THEN progress.v ELSE "", 0)
    /\ nowPlayingInfo' = IF progress.some
                         THEN set_playback_progress(nowPlayingInfo, progress.v)
                         ELSE nowPlayingInfo
    /\ UNCHANGED <<backend, lifecycleVars, session, delivered, emitted, event_handler,
                   dispatching, GLOBAL_METADATA_COUNTER, loads, controls, handlers>>

AppleNext ==
    \/ CoverNext
    \/ \E metadata \in AppleMetadata : set_metadata(metadata)
    \/ \E progress \in AppleProgresses : set_playback(progress)

AppleSpec == AppleInit /\ [][AppleNext]_vars

\* C39. A metadata update keeps artwork and progress: set_metadata leaves the
\* artwork entry and the elapsed-time entry of the now-playing info as they
\* were and stores the metadata-derived entries.
C39_MetadataKeepsArtworkAndProgress ==
    [][ \A metadata \in AppleMetadata :
            set_metadata(metadata) =>
                /\ nowPlayingInfo'.metadata = metadata
                /\ nowPlayingInfo'.artwork = nowPlayingInfo.artwork
                /\ nowPlayingInfo'.elapsed = nowPlayingInfo.elapsed ]_vars

(***************************************************************************)
(* The Windows backend (platform/windows/mod.rs).  attach adds one set of  *)
(* callbacks (button, position, rate, shuffle, repeat) to the              *)
(* SystemMediaTransportControls and keeps the registration tokens in       *)
(* self.handlers; each set is modelled by one token, which also names the  *)
(* event handler its callbacks call.  The system calls are taken to        *)
(* succeed, and the system delivers button presses while IsEnabled.        *)
(***************************************************************************)
MaxAttaches == 3

WindowsInit == PlatformHandleInit("windows")

Buttons == {"Play", "Pause", "Next"}

\* Windows::attach: SetIsEnabled(true) ..., the TypedEventHandlers around the
\* new event_handler, `self.handlers = Some(Handlers { button:
\* self.controls.ButtonPressed(&button_handler)?, .. })`.
WindowsAttach ==
    /\ controls.issued < MaxAttaches
    /\ LET token == controls.issued + 1 IN
       /\ controls' = [IsEnabled |-> TRUE,
                       registered |-> controls.registered \cup {token},
                       issued |-> token]
       /\ handlers' = token
    /\ request' = Request("call", "attach", "", 0)
    /\ UNCHANGED <<backend, lifecycleVars, session, delivered, emitted, event_handler,
                   dispatching, GLOBAL_METADATA_COUNTER, nowPlayingInfo, loads>>

\* Windows::detach: SetIsEnabled(false), `if let Some(ref handlers) =
\* self.handlers { self.controls.RemoveButtonPressed(handlers.button)?; .. }`,
\* `self.handlers = None`.
WindowsDetach ==
    /\ controls' = [controls EXCEPT !.IsEnabled = FALSE,
                                    !.registered = IF handlers # 0 THEN @ \ {handlers} ELSE @]
    /\ handlers' = 0
    /\ request' = Request("call", "detach", "", 0)
    /\ UNCHANGED <<backend, lifecycleVars, session, delivered, emitted, event_handler,
                   dispatching, GLOBAL_METADATA_COUNTER, nowPlayingInfo, loads>>

\* One call of an event handler: which handler, with which event.
Invocation(token, event) == [handler |-> token, event |-> event]

\* The system raises ButtonPressed: every registered button callback runs, in
\* the order of registration, and hands the event to its own event_handler.
RECURSIVE Invocations(_, _)
Invocations(tokens, event) ==
    IF tokens = {}
    THEN <<>>
    ELSE LET first == CHOOSE t \in tokens : \A u \in tokens : t <= u
         IN  <<Invocation(first, event)>> \o Invocations(tokens \ {first}, event)

ButtonPressed(button) ==
    /\ controls.IsEnabled
    /\ request' = Request("os", "ButtonPressed", button, 0)
    /\ delivered' = Invocations(controls.registered, button)
    /\ UNCHANGED <<backend, lifecycleVars, session, emitted, platformVars>>

WindowsNext ==
    \/ WindowsAttach
    \/ WindowsDetach
    \/ \E button \in Buttons : ButtonPressed(button)

WindowsSpec == WindowsInit /\ [][WindowsNext]_vars

\* C40. Attach does not accumulate handlers: after any attach or detach at
\* most one set of callbacks is registered with the system controls, after
\* detach none is, and one button press hands exactly one event to the
\* handler of the most recent attach.
C40_AttachDoesNotAccumulate ==
    [][ /\ Cardinality(controls'.registered) <= 1
        /\ WindowsDetach => controls'.registered = {}
        /\ \A button \in Buttons :
               ButtonPressed(button) => delivered' = <<Invocation(handlers, button)>> ]_vars

====
